---- MODULE Spec2Model ----
(***************************************************************************)
(* Model of the unofficial Pecron API client: the property codec and the   *)
(* command-result decoding (src/src/unofficial_pecron_api/models.py) and   *)
(* the session with its operations (src/src/unofficial_pecron_api/         *)
(* client.py).                                                             *)
(*                                                                         *)
(* Python strings that the code inspects character by character (property  *)
(* values) are sequences of one-character strings; strings the code only   *)
(* compares for equality (resource codes, declared types, keys, tickets)   *)
(* are TLA+ strings.                                                       *)
(***************************************************************************)
EXTENDS Integers, Sequences, FiniteSets, TLC

VARIABLES
    tsl_info,      \* DeviceProperties.from_api: the argument (list of dicts)
    props,         \* DeviceProperties.from_api: the instance being filled
    i,             \* DeviceProperties.from_api: number of items the loop consumed
    pc,            \* DeviceProperties.from_api: "call", "loop", "done" or "raised"
    exc,           \* the exception that escaped from_api ("" if none)
    lookup,        \* the last get_by_code call: its argument and its result
    response,      \* CommandResult.from_api: the response argument
    device,        \* CommandResult.from_api: the (product_key, device_key) arguments
    result,        \* CommandResult.from_api: the returned CommandResult
    cpc,           \* CommandResult.from_api: "call" or "returned"
                   \* (pc and cpc are "idle" while the other operation is examined)
    session,       \* the PecronAPI object: region, _access_token, _refresh_token
    spc,           \* the session's caller: "ready" between two calls, "called"
                   \* at a call that has not run yet ("idle": no session examined)
    call,          \* the last operation called on the session, and its arguments
    dev,           \* the Device object passed to that call, as the call left it
    replied,       \* what the upstream did with the request of that call
    issued,        \* the requests that call handed to the transport
    raised,        \* the exception that call raised (NoException if it returned)
    returned,      \* the value that call returned
    logged,        \* the records that call wrote to the logger of client.py
    auth,          \* the functions of auth.py: their arguments, which of them
                   \* were called, and what each returned
    cli            \* a run of the command line: the command and its options,
                   \* the devices selected, what the loop did so far, what it
                   \* printed, and how the process ended

vars == <<tsl_info, props, i, pc, exc, lookup, response, device, result, cpc,
          session, spc, dev, call, replied, issued, raised, returned, logged,
          auth, cli>>

decodeVars == <<tsl_info, props, i, pc, exc, lookup>>
commandVars == <<response, device, result, cpc>>
sessionVars == <<session, spc, dev, call, replied, issued, raised, returned, logged>>
authVars == <<auth>>
cliVars == <<cli>>

-----------------------------------------------------------------------------
(* Bounds of the model.                                                    *)

\* longest customizeTslInfo list
MaxLen == 2
\* longest successList / failureList
MaxList == 2

-----------------------------------------------------------------------------
(* Python values.  Every value is a record of the same shape:              *)
(*   t  the type: "none", "bool", "int", "str", "dict", or "absent" for a  *)
(*      key that the enclosing dict does not hold                          *)
(*   b  the value of a bool, n of an int, s the characters of a str,       *)
(*   d  the items of a dict, a sequence of <<key, value>> in insertion     *)
(*      order, keys being character sequences too; for a "list", the       *)
(*      sequence of its elements                                           *)

PyVal(t, b, n, s, d) == [t |-> t, b |-> b, n |-> n, s |-> s, d |-> d]

None == PyVal("none", FALSE, 0, <<>>, <<>>)
Absent == PyVal("absent", FALSE, 0, <<>>, <<>>)
PyBool(b) == PyVal("bool", b, 0, <<>>, <<>>)
PyInt(n) == PyVal("int", FALSE, n, <<>>, <<>>)
PyStr(s) == PyVal("str", FALSE, 0, s, <<>>)
PyDict(d) == PyVal("dict", FALSE, 0, <<>>, d)
PyList(l) == PyVal("list", FALSE, 0, <<>>, l)

\* the outcome of an expression: the exception it raises ("" if none) and its value
Ok(v) == [exc |-> "", v |-> v]
Raise(e) == [exc |-> e, v |-> None]

\* a key that a dict of atoms (resource code, declared type, ...) does not hold
NoKey == "<absent>"

\* dict.get(key, default) on a field holding a Python value
get(v, default) == IF v = Absent THEN default ELSE v

\* dict.get(key, default) on a field holding an atom
getAtom(a, default) == IF a = NoKey THEN default ELSE a

-----------------------------------------------------------------------------
(* Characters.                                                             *)

Digits == <<"0", "1", "2", "3", "4", "5", "6", "7", "8", "9">>
UpperCase == <<"A", "B", "C", "D", "E", "F", "G", "H", "I", "J", "K", "L", "M",
               "N", "O", "P", "Q", "R", "S", "T", "U", "V", "W", "X", "Y", "Z">>
LowerCase == <<"a", "b", "c", "d", "e", "f", "g", "h", "i", "j", "k", "l", "m",
               "n", "o", "p", "q", "r", "s", "t", "u", "v", "w", "x", "y", "z">>

Range(f) == {f[k] : k \in DOMAIN f}

IsDigit(c) == c \in Range(Digits)
DigitValue(c) == (CHOOSE k \in DOMAIN Digits : Digits[k] = c) - 1
IsSpace(c) == c = " "

\* str.lower() of one character
LowerChar(c) ==
    IF c \in Range(UpperCase)
    THEN LowerCase[CHOOSE k \in DOMAIN UpperCase : UpperCase[k] = c]
    ELSE c

\* str.lower()
lower(s) == [k \in DOMAIN s |-> LowerChar(s[k])]

\* the text s[from..to] (1-based, inclusive; empty when to < from)
Slice(s, from, to) == [k \in 1..(to - from + 1) |-> s[from + k - 1]]

-----------------------------------------------------------------------------
(* int(value), as _apply calls it on a property value.                     *)

RECURSIVE DigitsValue(_)
\* the number a sequence of decimal digits denotes
DigitsValue(ds) ==
    IF ds = <<>> THEN 0
    ELSE 10 * DigitsValue(SubSeq(ds, 1, Len(ds) - 1)) + DigitValue(ds[Len(ds)])

\* str.strip(), which int() applies to its argument
strip(s) ==
    LET inked == {k \in DOMAIN s : ~IsSpace(s[k])}
    IN  IF inked = {} THEN <<>>
        ELSE Slice(s, CHOOSE k \in inked : \A m \in inked : k <= m,
                      CHOOSE k \in inked : \A m \in inked : k >= m)

\* int(s) of a str: optional blanks, optional sign, decimal digits that single
\* underscores may separate; anything else is a ValueError
int_str(s) ==
    LET t == strip(s)
        signed == t # <<>> /\ t[1] \in {"+", "-"}
        body == IF signed THEN Tail(t) ELSE t
        wellFormed ==
            /\ body # <<>>
            /\ \A k \in DOMAIN body :
                  \/ IsDigit(body[k])
                  \/ /\ body[k] = "_"
                     /\ k > 1 /\ k < Len(body)
                     /\ IsDigit(body[k - 1]) /\ IsDigit(body[k + 1])
        magnitude == DigitsValue(SelectSeq(body, IsDigit))
    IN  IF ~wellFormed THEN Raise("ValueError")
        ELSE Ok(PyInt(IF signed /\ t[1] = "-" THEN 0 - magnitude ELSE magnitude))

\* int(value)
int(value) ==
    CASE value.t = "str" -> int_str(value.s)
      [] value.t = "int" -> Ok(value)
      [] value.t = "bool" -> Ok(PyInt(IF value.b THEN 1 ELSE 0))
      [] OTHER -> Raise("TypeError")

\* (variant) value == "true", without lower()
lower_is_true_CaseSensitive(value) ==
    IF value.t = "str"
    THEN Ok(PyBool(value.s = <<"t", "r", "u", "e">>))
    ELSE Raise("AttributeError")

\* value.lower() == "true"
lower_is_true(value) ==
    IF value.t = "str"
    THEN Ok(PyBool(lower(value.s) = <<"t", "r", "u", "e">>))
    ELSE Raise("AttributeError")

-----------------------------------------------------------------------------
(* json.loads(value), as _apply calls it on the value of a struct code.    *)
(* The decoder covers objects, arrays, strings (with the escapes of the    *)
(* quote and the backslash), integers and the literals true, false and     *)
(* null, with blanks between tokens.  A parse                              *)
(* step returns [ok, v, p]: whether it succeeded, the value, and the       *)
(* position after it.                                                      *)

Parsed(v, p) == [ok |-> TRUE, v |-> v, p |-> p]
ParseError == [ok |-> FALSE, v |-> None, p |-> 0]

\* whether the text w starts at position p of s
StartsAt(s, p, w) ==
    /\ p + Len(w) - 1 <= Len(s)
    /\ \A k \in DOMAIN w : s[p + k - 1] = w[k]

RECURSIVE skip_whitespace(_, _)
\* the first position at or after p that holds no blank
skip_whitespace(s, p) ==
    IF p <= Len(s) /\ IsSpace(s[p]) THEN skip_whitespace(s, p + 1) ELSE p

\* d[key] = v on the items of a dict
DictSet(d, key, v) ==
    IF \E k \in DOMAIN d : d[k][1] = key
    THEN [k \in DOMAIN d |-> IF d[k][1] = key THEN <<key, v>> ELSE d[k]]
    ELSE Append(d, <<key, v>>)

RECURSIVE parse_chars(_, _, _)
\* the rest of a string token from position p, after the characters acc: up to
\* the closing quote, a backslash escaping a quote or a backslash
parse_chars(s, p, acc) ==
    IF p > Len(s) THEN ParseError
    ELSE IF s[p] = "\"" THEN Parsed(PyStr(acc), p + 1)
    ELSE IF s[p] = "\\"
         THEN IF p + 1 <= Len(s) /\ s[p + 1] \in {"\"", "\\"}
              THEN parse_chars(s, p + 2, Append(acc, s[p + 1]))
              ELSE ParseError
    ELSE parse_chars(s, p + 1, Append(acc, s[p]))

\* a string token that starts at the quote at p
parse_string(s, p) == parse_chars(s, p + 1, <<>>)

\* a number token that starts at p: -? (0 | [1-9][0-9]*)
parse_number(s, p) ==
    LET first == IF s[p] = "-" THEN p + 1 ELSE p
        stops == {q \in first..(Len(s) + 1) : q = Len(s) + 1 \/ ~IsDigit(s[q])}
        stop == CHOOSE q \in stops : \A m \in stops : q <= m
        digits == Slice(s, first, stop - 1)
        magnitude == DigitsValue(digits)
    IN  IF digits = <<>> \/ (Len(digits) > 1 /\ digits[1] = "0") THEN ParseError
        ELSE Parsed(PyInt(IF first > p THEN 0 - magnitude ELSE magnitude), stop)

RECURSIVE parse_value(_, _)
RECURSIVE parse_members(_, _, _)
RECURSIVE parse_elements(_, _, _)

\* the elements of an array from position p (a value is due there), after l
parse_elements(s, p, l) ==
    LET val == parse_value(s, p)
        next == skip_whitespace(s, val.p)
    IN  IF ~val.ok \/ next > Len(s) THEN ParseError
        ELSE IF s[next] = "]" THEN Parsed(PyList(Append(l, val.v)), next + 1)
        ELSE IF s[next] = ","
             THEN parse_elements(s, skip_whitespace(s, next + 1), Append(l, val.v))
        ELSE ParseError

\* the members of an object from position p (a key is due there), added to d
parse_members(s, p, d) ==
    IF p > Len(s) \/ s[p] # "\"" THEN ParseError
    ELSE LET key == parse_string(s, p)
             colon == skip_whitespace(s, key.p)
         IN  IF ~key.ok \/ colon > Len(s) \/ s[colon] # ":" THEN ParseError
             ELSE LET val == parse_value(s, skip_whitespace(s, colon + 1))
                      next == skip_whitespace(s, val.p)
                      items == DictSet(d, key.v.s, val.v)
                  IN  IF ~val.ok \/ next > Len(s) THEN ParseError
                      ELSE IF s[next] = "}" THEN Parsed(PyDict(items), next + 1)
                      ELSE IF s[next] = ","
                           THEN parse_members(s, skip_whitespace(s, next + 1), items)
                      ELSE ParseError

\* a JSON value that starts at p
parse_value(s, p) ==
    IF p > Len(s) THEN ParseError
    ELSE IF s[p] = "{"
         THEN LET q == skip_whitespace(s, p + 1)
              IN  IF q <= Len(s) /\ s[q] = "}" THEN Parsed(PyDict(<<>>), q + 1)
                  ELSE parse_members(s, q, <<>>)
    ELSE IF s[p] = "["
         THEN LET q == skip_whitespace(s, p + 1)
              IN  IF q <= Len(s) /\ s[q] = "]" THEN Parsed(PyList(<<>>), q + 1)
                  ELSE parse_elements(s, q, <<>>)
    ELSE IF s[p] = "\"" THEN parse_string(s, p)
    ELSE IF s[p] = "-" \/ IsDigit(s[p]) THEN parse_number(s, p)
    ELSE IF StartsAt(s, p, <<"t", "r", "u", "e">>) THEN Parsed(PyBool(TRUE), p + 4)
    ELSE IF StartsAt(s, p, <<"f", "a", "l", "s", "e">>) THEN Parsed(PyBool(FALSE), p + 5)
    ELSE IF StartsAt(s, p, <<"n", "u", "l", "l">>) THEN Parsed(None, p + 4)
    ELSE ParseError

\* json.loads(value)
json_loads(value) ==
    IF value.t # "str" THEN Raise("TypeError")
    ELSE LET r == parse_value(value.s, skip_whitespace(value.s, 1))
         IN  IF r.ok /\ skip_whitespace(value.s, r.p) = Len(value.s) + 1
             THEN Ok(r.v)
             ELSE Raise("JSONDecodeError")

-----------------------------------------------------------------------------
(* json.dumps(obj), as set_device_property calls it, with the default      *)
(* separators ", " and ": ".                                               *)

RECURSIVE join_from(_, _, _, _)
\* acc followed by the texts from the k-th on, separator before each
join_from(texts, separator, k, acc) ==
    IF k > Len(texts) THEN acc
    ELSE join_from(texts, separator, k + 1, acc \o separator \o texts[k])

\* separator.join(texts)
Join(texts, separator) ==
    IF Len(texts) = 0 THEN <<>> ELSE join_from(texts, separator, 2, texts[1])

RECURSIVE decimal(_)
\* the decimal digits of a natural number
decimal(n) ==
    IF n < 10 THEN <<Digits[n + 1]>>
    ELSE Append(decimal(n \div 10), Digits[(n % 10) + 1])

RECURSIVE escape_from(_, _, _)
\* acc followed by the characters of s from the k-th on, a backslash before
\* each quote and each backslash
escape_from(s, k, acc) ==
    IF k > Len(s) THEN acc
    ELSE escape_from(s, k + 1,
                     IF s[k] \in {"\"", "\\"}
                     THEN acc \o <<"\\", s[k]>>
                     ELSE Append(acc, s[k]))

\* a string as a JSON token: quoted, the quote and the backslash escaped
dumps_str(s) == Append(escape_from(s, 1, <<"\"">>), "\"")

RECURSIVE json_dumps(_)
\* json.dumps(obj)
json_dumps(obj) ==
    CASE obj.t = "none" -> <<"n", "u", "l", "l">>
      [] obj.t = "bool" ->
            IF obj.b THEN <<"t", "r", "u", "e">> ELSE <<"f", "a", "l", "s", "e">>
      [] obj.t = "int" ->
            IF obj.n < 0 THEN <<"-">> \o decimal(0 - obj.n) ELSE decimal(obj.n)
      [] obj.t = "str" -> dumps_str(obj.s)
      [] obj.t = "list" ->
            <<"[">>
            \o Join([k \in DOMAIN obj.d |-> json_dumps(obj.d[k])], <<",", " ">>)
            \o <<"]">>
      [] obj.t = "dict" ->
            <<"{">>
            \o Join([k \in DOMAIN obj.d |->
                       dumps_str(obj.d[k][1]) \o <<":", " ">> \o json_dumps(obj.d[k][2])],
                    <<",", " ">>)
            \o <<"}">>

-----------------------------------------------------------------------------
(* DeviceProperties.                                                       *)

\* a property record of customizeTslInfo; a key the dict lacks is NoKey / Absent
Item(code, value, data_type) ==
    [resourceCode |-> code, resourceValce |-> value, dataType |-> data_type]

\* (variant) the raw argument is dropped: raw keeps its default, the empty list
DeviceProperties_EmptyRaw(raw) ==
    [battery_percentage |-> None,
     total_input_power |-> None,
     total_output_power |-> None,
     ac_switch |-> None,
     dc_switch |-> None,
     ups_status |-> None,
     remain_charging_time |-> None,
     remain_discharging_time |-> None,
     ac_output |-> None,
     dc_output |-> None,
     ac_input |-> None,
     dc_input |-> None,
     raw |-> <<>>]

\* the dataclass: every typed field defaults to None
DeviceProperties(raw) ==
    [battery_percentage |-> None,
     total_input_power |-> None,
     total_output_power |-> None,
     ac_switch |-> None,
     dc_switch |-> None,
     ups_status |-> None,
     remain_charging_time |-> None,
     remain_discharging_time |-> None,
     ac_output |-> None,
     dc_output |-> None,
     ac_input |-> None,
     dc_input |-> None,
     raw |-> raw]

TypedFields ==
    {"battery_percentage", "total_input_power", "total_output_power",
     "ac_switch", "dc_switch", "ups_status",
     "remain_charging_time", "remain_discharging_time",
     "ac_output", "dc_output", "ac_input", "dc_input"}

\* (variant) the field is cleared when the expression raises
Assign_ClearsOnError(self, field, outcome) ==
    IF outcome.exc # ""
    THEN [exc |-> outcome.exc, self |-> [self EXCEPT ![field] = None]]
    ELSE [exc |-> "", self |-> [self EXCEPT ![field] = outcome.v]]

\* self.<field> = <expression>: nothing is assigned when the expression raises
Assign(self, field, outcome) ==
    IF outcome.exc # ""
    THEN [exc |-> outcome.exc, self |-> self]
    ELSE [exc |-> "", self |-> [self EXCEPT ![field] = outcome.v]]

\* (variant) json.loads(value) whatever the declared type
struct_value_IgnoresType(value, data_type) == json_loads(value)

\* json.loads(value) if data_type == "STRUCT" else None
struct_value(value, data_type) ==
    IF data_type = "STRUCT" THEN json_loads(value) ELSE Ok(None)

\* (variant) remain_time is stored in remain_charging_time
_apply_SwappedTimes(self, code, value, data_type) ==
    CASE code = "battery_percentage" ->
            Assign(self, "battery_percentage", int(value))
      [] code = "total_input_power" ->
            Assign(self, "total_input_power", int(value))
      [] code = "total_output_power" ->
            Assign(self, "total_output_power", int(value))
      [] code = "ac_switch_hm" ->
            Assign(self, "ac_switch", lower_is_true(value))
      [] code = "dc_switch_hm" ->
            Assign(self, "dc_switch", lower_is_true(value))
      [] code = "ups_status_hm" ->
            Assign(self, "ups_status", lower_is_true(value))
      [] code = "remain_charging_time" ->
            Assign(self, "remain_charging_time", int(value))
      [] code = "remain_time" ->
            Assign(self, "remain_charging_time", int(value))
      [] code = "ac_data_output_hm" ->
            Assign(self, "ac_output", struct_value(value, data_type))
      [] code = "dc_data_output_hm" ->
            Assign(self, "dc_output", struct_value(value, data_type))
      [] code = "ac_data_input_hm" ->
            Assign(self, "ac_input", struct_value(value, data_type))
      [] code = "dc_data_input_hm" ->
            Assign(self, "dc_input", struct_value(value, data_type))
      [] OTHER -> [exc |-> "", self |-> self]

\* DeviceProperties._apply
_apply(self, code, value, data_type) ==
    CASE code = "battery_percentage" ->
            Assign(self, "battery_percentage", int(value))
      [] code = "total_input_power" ->
            Assign(self, "total_input_power", int(value))
      [] code = "total_output_power" ->
            Assign(self, "total_output_power", int(value))
      [] code = "ac_switch_hm" ->
            Assign(self, "ac_switch", lower_is_true(value))
      [] code = "dc_switch_hm" ->
            Assign(self, "dc_switch", lower_is_true(value))
      [] code = "ups_status_hm" ->
            Assign(self, "ups_status", lower_is_true(value))
      [] code = "remain_charging_time" ->
            Assign(self, "remain_charging_time", int(value))
      [] code = "remain_time" ->
            Assign(self, "remain_discharging_time", int(value))
      [] code = "ac_data_output_hm" ->
            Assign(self, "ac_output", struct_value(value, data_type))
      [] code = "dc_data_output_hm" ->
            Assign(self, "dc_output", struct_value(value, data_type))
      [] code = "ac_data_input_hm" ->
            Assign(self, "ac_input", struct_value(value, data_type))
      [] code = "dc_data_input_hm" ->
            Assign(self, "dc_input", struct_value(value, data_type))
      [] OTHER -> [exc |-> "", self |-> self]

\* (variant) the except clause names TypeError only
Caught_OnlyTypeError == {"TypeError"}

\* the exceptions the loop of from_api catches
Caught == {"ValueError", "TypeError", "JSONDecodeError"}

\* one pass of the loop body of from_api over item, on the instance self
from_api_item(self, item) ==
    LET code == getAtom(item.resourceCode, "")
        value == get(item.resourceValce, PyStr(<<>>))
        data_type == getAtom(item.dataType, "")
        applied == _apply(self, code, value, data_type)
    IN  IF applied.exc \in Caught
        THEN [exc |-> "", self |-> applied.self]
        ELSE applied

RECURSIVE get_by_code_from(_, _, _)
\* the loop of get_by_code, from the k-th item of raw
get_by_code_from(raw, k, resource_code) ==
    IF k > Len(raw) THEN None
    ELSE IF raw[k].resourceCode # NoKey /\ raw[k].resourceCode = resource_code
         THEN get(raw[k].resourceValce, None)
         ELSE get_by_code_from(raw, k + 1, resource_code)

\* (variant) the scan starts at the second item
get_by_code_SkipsFirst(self, resource_code) ==
    get_by_code_from(self.raw, 2, resource_code)

\* DeviceProperties.get_by_code
get_by_code(self, resource_code) == get_by_code_from(self.raw, 1, resource_code)

-----------------------------------------------------------------------------
(* CommandResult.                                                          *)

\* the dataclass
CommandResult(success, ticket, error_message) ==
    [success |-> success, ticket |-> ticket, error_message |-> error_message]

\* an entry of successList / failureList
Entry(data, ticket, msg) == [data |-> data, ticket |-> ticket, msg |-> msg]

\* the data dict of an entry
Data(productKey, deviceKey) ==
    [t |-> "dict", productKey |-> productKey, deviceKey |-> deviceKey]
NoData(t) == [t |-> t, productKey |-> Absent, deviceKey |-> Absent]

\* a list-valued field of the response
List(items) == [t |-> "list", items |-> items]
NoList(t) == [t |-> t, items |-> <<>>]

\* response.get(key) or []
or_empty_list(field) == IF field.t = "list" THEN field.items ELSE <<>>

\* item.get("data") or {}
or_empty_dict(data) == IF data.t = "dict" THEN data ELSE Data(Absent, Absent)

\* (variant) "or" in place of "and"
data_matches_EitherKey(data, product_key, device_key) ==
    \/ get(data.productKey, None) = product_key
    \/ get(data.deviceKey, None) = device_key

\* data.get("productKey") == product_key and data.get("deviceKey") == device_key
data_matches(data, product_key, device_key) ==
    /\ get(data.productKey, None) = product_key
    /\ get(data.deviceKey, None) = device_key

RECURSIVE scan_list(_, _, _, _)
\* a for loop of from_api from the k-th entry: the first entry whose data
\* matches the device, as <<entry>>, or <<>> when the loop runs out
scan_list(items, k, product_key, device_key) ==
    IF k > Len(items) THEN <<>>
    ELSE IF data_matches(or_empty_dict(items[k].data), product_key, device_key)
         THEN <<items[k]>>
         ELSE scan_list(items, k + 1, product_key, device_key)

NotFoundMessage ==
    PyStr(<<"D", "e", "v", "i", "c", "e", " ", "n", "o", "t", " ",
            "f", "o", "u", "n", "d", " ", "i", "n", " ", "A", "P", "I", " ",
            "r", "e", "s", "p", "o", "n", "s", "e">>)

\* CommandResult.from_api
CommandResult_from_api(resp, product_key, device_key) ==
    LET accepted == scan_list(or_empty_list(resp.successList), 1,
                              product_key, device_key)
        rejected == scan_list(or_empty_list(resp.failureList), 1,
                              product_key, device_key)
    IN  IF accepted # <<>>
        THEN CommandResult(TRUE, get(accepted[1].ticket, None), None)
        ELSE IF rejected # <<>>
        THEN CommandResult(FALSE, None, get(rejected[1].msg, None))
        ELSE CommandResult(FALSE, None, NotFoundMessage)

-----------------------------------------------------------------------------
(* Exceptions (exceptions.py) and the constants of const.py.               *)

\* an exception object; message and code are None on the exceptions that
\* are not a PecronAPIError
Exception(kind, message, code) == [kind |-> kind, message |-> message, code |-> code]
NoException == Exception("", None, None)

\* PecronAPIError(message, code=None) and its subclasses
PecronAPIError(message, code) == Exception("PecronAPIError", message, code)
AuthenticationError(message, code) == Exception("AuthenticationError", message, code)
DeviceNotFoundError(message, code) == Exception("DeviceNotFoundError", message, code)
CommandError(message, code) == Exception("CommandError", message, code)

\* the exceptions of the interpreter and of the transport, which carry no code
Error(kind) == Exception(kind, None, None)

\* the classes that "except PecronAPIError" catches
PecronAPIErrorClasses ==
    {"PecronAPIError", "AuthenticationError", "DeviceNotFoundError", "CommandError"}

\* isinstance(e, PecronAPIError)
IsPecronAPIError(e) == e.kind \in PecronAPIErrorClasses

APP_ID == "633"
APP_VERSION == "1.9.0"
APP_SYSTEM_TYPE == "android"

REGIONS ==
    [CN |-> [base_url |-> "https://iot-api.quectelcn.com",
             user_domain |-> "C.DM.5903.1",
             user_domain_secret |-> "EufftRJSuWuVY7c6txzGifV9bJcfXHAFa7hXY5doXSn7"],
     EU |-> [base_url |-> "https://iot-api.acceleronix.io",
             user_domain |-> "C.DM.10351.1",
             user_domain_secret |-> "FA5ZHXSka8y9GHvU91Hz1vWvaDSHE2mGW5B7bpn3fXTW"],
     US |-> [base_url |-> "https://iot-api.landecia.com",
             user_domain |-> "U.DM.10351.1",
             user_domain_secret |-> "HARsQXfeex8vxyaPRAM8fyjqqVuH2uxAGQ3inJ8XxTiB"]]

-----------------------------------------------------------------------------
(* The library functions that auth.py calls: str.encode, hashlib.md5 (RFC   *)
(* 1321), hashlib.sha256 (FIPS 180-4), AES in CBC mode (FIPS 197),         *)
(* PKCS#7 padding and base64.  A byte is a number 0..255, a bytes object a *)
(* sequence of bytes, a str a string; a 32-bit word is a pair <<hi, lo>>   *)
(* of 16-bit numbers.                                                      *)

\* the characters of the strings the functions are called with: the ASCII
\* characters of the codes 32..95 and 97..126
AsciiFrom32 == " !\"#$%&'()*+,-./0123456789:;<=>?@ABCDEFGHIJKLMNOPQRSTUVWXYZ[\\]^_"
AsciiFrom97 == "abcdefghijklmnopqrstuvwxyz{|}~"

\* chr(n)
chr(n) == IF n < 96 THEN SubSeq(AsciiFrom32, n - 31, n - 31) ELSE SubSeq(AsciiFrom97, n - 96, n - 96)

\* ord(c) of a one-character string
ord == [c \in {chr(n) : n \in (32..95) \cup (97..126)} |-> CHOOSE n \in (32..95) \cup (97..126) : chr(n) = c]

\* the list with the elements of a sequence given by a rule
tuple(f) == SubSeq(f, 1, Len(f))

\* s.encode("utf-8"): the bytes of a string of ASCII characters
encode(s) == tuple([k \in 1..Len(s) |-> ord[SubSeq(s, k, k)]])

\* bytes.decode("utf-8") for bytes that are ASCII characters
RECURSIVE decode(_)
decode(bytes) ==
    IF Len(bytes) = 0 THEN ""
    ELSE IF Len(bytes) = 1 THEN chr(bytes[1])
    ELSE decode(SubSeq(bytes, 1, Len(bytes) \div 2)) \o decode(SubSeq(bytes, (Len(bytes) \div 2) + 1, Len(bytes)))

\* a ^ b, a & b and a | b on the numbers 0..15
XorNibble == [a \in 0..15 |-> [b \in 0..15 |-> ((a + b) % 2) + 2 * (((a \div 2) + (b \div 2)) % 2) + 4 * (((a \div 4) + (b \div 4)) % 2) + 8 * (((a \div 8) + (b \div 8)) % 2)]]
AndNibble == [a \in 0..15 |-> [b \in 0..15 |-> ((a % 2) * (b % 2)) + 2 * (((a \div 2) % 2) * ((b \div 2) % 2)) + 4 * (((a \div 4) % 2) * ((b \div 4) % 2)) + 8 * ((a \div 8) * (b \div 8))]]

\* a ^ b and a & b on 16-bit numbers
xor16(a, b) ==
    XorNibble[a % 16][b % 16]
    + 16 * XorNibble[(a \div 16) % 16][(b \div 16) % 16]
    + 256 * XorNibble[(a \div 256) % 16][(b \div 256) % 16]
    + 4096 * XorNibble[a \div 4096][b \div 4096]
and16(a, b) ==
    AndNibble[a % 16][b % 16]
    + 16 * AndNibble[(a \div 16) % 16][(b \div 16) % 16]
    + 256 * AndNibble[(a \div 256) % 16][(b \div 256) % 16]
    + 4096 * AndNibble[a \div 4096][b \div 4096]

\* 32-bit words are pairs <<high 16 bits, low 16 bits>>
xor32(a, b) == <<xor16(a[1], b[1]), xor16(a[2], b[2])>>
and32(a, b) == <<and16(a[1], b[1]), and16(a[2], b[2])>>
not32(a) == <<65535 - a[1], 65535 - a[2]>>
or32(a, b) == not32(and32(not32(a), not32(b)))
add32(a, b) == <<(a[1] + b[1] + ((a[2] + b[2]) \div 65536)) % 65536, (a[2] + b[2]) % 65536>>

\* 2 ** n
pow2(n) == <<1, 2, 4, 8, 16, 32, 64, 128, 256, 512, 1024, 2048, 4096, 8192, 16384, 32768, 65536>>[n + 1]

\* a rotated left by n bits, 0 <= n < 16
rotl_short(a, n) ==
    <<((a[1] * pow2(n)) % 65536) + (a[2] \div pow2(16 - n)),
      ((a[2] * pow2(n)) % 65536) + (a[1] \div pow2(16 - n))>>

\* a rotated left by n bits, 0 <= n < 32
rotl32(a, n) == IF n < 16 THEN rotl_short(a, n) ELSE rotl_short(<<a[2], a[1]>>, n - 16)

\* the padding of a message of n bytes to a multiple of 64 bytes: 0x80, zeros,
\* and room for the length
pad_zeros(n) == (119 - (n % 64)) % 64

\* n as count little-endian bytes
RECURSIVE le_bytes(_, _)
le_bytes(n, count) == IF count = 0 THEN <<>> ELSE <<n % 256>> \o le_bytes(n \div 256, count - 1)

\* the padded message of MD5
md5_padded(bytes) ==
    bytes \o <<128>> \o tuple([k \in 1..pad_zeros(Len(bytes)) |-> 0]) \o le_bytes(8 * Len(bytes), 8)

\* the little-endian word at byte offset p (from 0) of a message
le_word(bytes, p) == <<bytes[p + 3] + 256 * bytes[p + 4], bytes[p + 1] + 256 * bytes[p + 2]>>

\* the little-endian bytes of a word
word_le(a) == <<a[2] % 256, a[2] \div 256, a[1] % 256, a[1] \div 256>>

\* the constants of MD5: floor(2**32 * abs(sin(k))), and the shift amounts
MD5_K ==
  <<
     <<55146, 42104>>, <<59591, 46934>>, <<9248, 28891>>, <<49597, 52974>>,
     <<62844, 4015>>, <<18311, 50730>>, <<43056, 17939>>, <<64838, 38145>>,
     <<27008, 39128>>, <<35652, 63407>>, <<65535, 23473>>, <<35164, 55230>>,
     <<27536, 4386>>, <<64920, 29075>>, <<42617, 17294>>, <<18868, 2081>>,
     <<63006, 9570>>, <<49216, 45888>>, <<9822, 23121>>, <<59830, 51114>>,
     <<54831, 4189>>, <<580, 5203>>, <<55457, 59009>>, <<59347, 64456>>,
     <<8673, 52710>>, <<49975, 2006>>, <<62677, 3463>>, <<17754, 5357>>,
     <<43491, 59653>>, <<64751, 41976>>, <<26479, 729>>, <<36138, 19594>>,
     <<65530, 14658>>, <<34673, 63105>>, <<28061, 24866>>, <<64997, 14348>>,
     <<42174, 59972>>, <<19422, 53161>>, <<63163, 19296>>, <<48831, 48240>>,
     <<10395, 32454>>, <<60065, 10234>>, <<54511, 12421>>, <<1160, 7429>>,
     <<55764, 53305>>, <<59099, 39397>>, <<8098, 31992>>, <<50348, 22117>>,
     <<62505, 8772>>, <<17194, 65431>>, <<43924, 9127>>, <<64659, 41017>>,
     <<25947, 22979>>, <<36620, 52370>>, <<65519, 62589>>, <<34180, 24017>>,
     <<28584, 32335>>, <<65068, 59104>>, <<41729, 17172>>, <<19976, 4513>>,
     <<63315, 32386>>, <<48442, 62005>>, <<10967, 53947>>, <<60294, 54161>>
  >>
MD5_S ==
  <<7, 12, 17, 22, 7, 12, 17, 22, 7, 12, 17, 22, 7, 12, 17, 22, 5, 9, 14, 20, 5, 9, 14, 20, 5, 9, 14, 20, 5, 9, 14, 20, 4, 11, 16, 23, 4, 11, 16, 23, 4, 11, 16, 23, 4, 11, 16, 23, 6, 10, 15, 21, 6, 10, 15, 21, 6, 10, 15, 21, 6, 10, 15, 21>>

\* the function of round k (from 0) of MD5 and the index of its message word
md5_f(k, b, c, d) ==
    IF k < 16 THEN or32(and32(b, c), and32(not32(b), d))
    ELSE IF k < 32 THEN or32(and32(d, b), and32(not32(d), c))
    ELSE IF k < 48 THEN xor32(b, xor32(c, d))
    ELSE xor32(c, or32(b, not32(d)))
md5_g(k) ==
    IF k < 16 THEN k
    ELSE IF k < 32 THEN (5 * k + 1) % 16
    ELSE IF k < 48 THEN (3 * k + 5) % 16
    ELSE (7 * k) % 16

\* one round of MD5 on the state <<a, b, c, d>> with the message word m
md5_step(k, st, m) ==
    <<st[4],
      add32(st[2], rotl32(add32(add32(md5_f(k, st[2], st[3], st[4]), st[1]), add32(MD5_K[k + 1], m)), MD5_S[k + 1])),
      st[2],
      st[3]>>

\* the rounds lo..hi-1 of MD5 on the block at byte offset p; a state has four
\* words
RECURSIVE md5_rounds(_, _, _, _, _)
md5_rounds(st, bytes, p, lo, hi) ==
    IF Len(st) # 4 \/ hi <= lo THEN st
    ELSE IF hi = lo + 1 THEN md5_step(lo, st, le_word(bytes, p + 4 * md5_g(lo)))
    ELSE md5_rounds(md5_rounds(st, bytes, p, lo, (lo + hi) \div 2), bytes, p, (lo + hi) \div 2, hi)

\* the sum, word by word, of two states
add_words(st, other) == tuple([j \in DOMAIN st |-> add32(st[j], other[j])])

\* the state after the blocks from byte offset p on
RECURSIVE md5_blocks(_, _, _)
md5_blocks(st, bytes, p) ==
    IF p >= Len(bytes) THEN st
    ELSE md5_blocks(add_words(st, md5_rounds(st, bytes, p, 0, 64)), bytes, p + 64)

\* the bytes of the state of MD5
md5_bytes(st) == word_le(st[1]) \o word_le(st[2]) \o word_le(st[3]) \o word_le(st[4])

\* bytes.hex()
HexDigits == "0123456789abcdef"
hex_digit(n) == SubSeq(HexDigits, n + 1, n + 1)
RECURSIVE hex(_)
hex(bytes) ==
    IF Len(bytes) = 0 THEN ""
    ELSE IF Len(bytes) = 1 THEN hex_digit(bytes[1] \div 16) \o hex_digit(bytes[1] % 16)
    ELSE hex(SubSeq(bytes, 1, Len(bytes) \div 2)) \o hex(SubSeq(bytes, (Len(bytes) \div 2) + 1, Len(bytes)))

\* s.upper()
RECURSIVE upper(_)
upper(s) ==
    IF Len(s) = 0 THEN ""
    ELSE IF Len(s) = 1 THEN (IF ord[s] \in 97..122 THEN chr(ord[s] - 32) ELSE s)
    ELSE upper(SubSeq(s, 1, Len(s) \div 2)) \o upper(SubSeq(s, (Len(s) \div 2) + 1, Len(s)))

\* hashlib.md5(bytes).digest()
md5(bytes) ==
    md5_bytes(md5_blocks(<< <<26437, 8961>>, <<61389, 43913>>, <<39098, 56574>>, <<4146, 21622>> >>, md5_padded(bytes), 0))

-----------------------------------------------------------------------------
(* hashlib.sha256.                                                         *)

\* a rotated right by n bits, 0 < n < 32
rotr32(a, n) == rotl32(a, 32 - n)

\* a shifted right by n bits, 0 <= n < 16
shr32(a, n) == <<a[1] \div pow2(n), (a[2] \div pow2(n)) + ((a[1] % pow2(n)) * pow2(16 - n))>>

\* n as count big-endian bytes
RECURSIVE be_bytes(_, _)
be_bytes(n, count) == IF count = 0 THEN <<>> ELSE be_bytes(n \div 256, count - 1) \o <<n % 256>>

\* the padded message of SHA-256
sha256_padded(bytes) ==
    bytes \o <<128>> \o tuple([k \in 1..pad_zeros(Len(bytes)) |-> 0]) \o be_bytes(8 * Len(bytes), 8)

\* the big-endian word at byte offset p (from 0) of a message
be_word(bytes, p) == <<256 * bytes[p + 1] + bytes[p + 2], 256 * bytes[p + 3] + bytes[p + 4]>>

\* the big-endian bytes of a word
word_be(a) == <<a[1] \div 256, a[1] % 256, a[2] \div 256, a[2] % 256>>

\* the constants of SHA-256: the fractional parts of the cube roots of the
\* first 64 primes, and of the square roots of the first 8
SHA256_K ==
  <<
     <<17034, 12184>>, <<28983, 17553>>, <<46528, 64463>>, <<59829, 56229>>,
     <<14678, 49755>>, <<23025, 4593>>, <<37439, 33444>>, <<43804, 24277>>,
     <<55303, 43672>>, <<4739, 23297>>, <<9265, 34238>>, <<21772, 32195>>,
     <<29374, 23924>>, <<32990, 45566>>, <<39900, 1703>>, <<49563, 61812>>,
     <<58523, 27073>>, <<61374, 18310>>, <<4033, 40390>>, <<9228, 41420>>,
     <<11753, 11375>>, <<19060, 33962>>, <<23728, 43484>>, <<30457, 35034>>,
     <<38974, 20818>>, <<43057, 50797>>, <<45059, 10184>>, <<48985, 32711>>,
     <<50912, 3059>>, <<54695, 37191>>, <<1738, 25425>>, <<5161, 10599>>,
     <<10167, 2693>>, <<11803, 8504>>, <<19756, 28156>>, <<21304, 3347>>,
     <<25866, 29524>>, <<30314, 2747>>, <<33218, 51502>>, <<37490, 11397>>,
     <<41663, 59553>>, <<43034, 26187>>, <<49739, 35696>>, <<51052, 20899>>,
     <<53650, 59417>>, <<54937, 1572>>, <<62478, 13701>>, <<4202, 41072>>,
     <<6564, 49430>>, <<7735, 27656>>, <<10056, 30540>>, <<13488, 48309>>,
     <<14620, 3251>>, <<20184, 43594>>, <<23452, 51791>>, <<26670, 28659>>,
     <<29839, 33518>>, <<30885, 25455>>, <<33992, 30740>>, <<36039, 520>>,
     <<37054, 65530>>, <<42064, 27883>>, <<48889, 41975>>, <<50801, 30962>>
  >>
SHA256_H ==
  <<
     <<27145, 58983>>, <<47975, 44677>>, <<15470, 62322>>, <<42319, 62778>>,
     <<20750, 21119>>, <<39685, 26764>>, <<8067, 55723>>, <<23520, 52505>>
  >>

\* the functions of SHA-256
sha256_s0(x) == xor32(rotr32(x, 7), xor32(rotr32(x, 18), shr32(x, 3)))
sha256_s1(x) == xor32(rotr32(x, 17), xor32(rotr32(x, 19), shr32(x, 10)))
sha256_S0(x) == xor32(rotr32(x, 2), xor32(rotr32(x, 13), rotr32(x, 22)))
sha256_S1(x) == xor32(rotr32(x, 6), xor32(rotr32(x, 11), rotr32(x, 25)))
sha256_ch(e, f, g) == xor32(and32(e, f), and32(not32(e), g))
sha256_maj(a, b, c) == xor32(and32(a, b), xor32(and32(a, c), and32(b, c)))

\* the message schedule of a block, w being its first words, extended to n
\* words
RECURSIVE sha256_schedule(_, _)
sha256_schedule(w, n) ==
    IF Len(w) >= n THEN w
    ELSE IF Len(w) + 1 = n
    THEN Append(w, add32(add32(sha256_s1(w[Len(w) - 1]), w[Len(w) - 6]), add32(sha256_s0(w[Len(w) - 14]), w[Len(w) - 15])))
    ELSE sha256_schedule(sha256_schedule(w, (Len(w) + n) \div 2), n)

\* the state <<a, ..., h>> after the two temporary words t1 and t2
sha256_shift(st, t1, t2) == <<add32(t1, t2), st[1], st[2], st[3], add32(st[4], t1), st[5], st[6], st[7]>>

\* one round of SHA-256 with the constant k and the schedule word w
sha256_step(st, k, w) ==
    sha256_shift(st,
                 add32(add32(st[8], sha256_S1(st[5])), add32(sha256_ch(st[5], st[6], st[7]), add32(k, w))),
                 add32(sha256_S0(st[1]), sha256_maj(st[1], st[2], st[3])))

\* the rounds lo..hi-1 of SHA-256 with the schedule w; a state has eight words
RECURSIVE sha256_rounds(_, _, _, _)
sha256_rounds(st, w, lo, hi) ==
    IF Len(st) # 8 \/ hi <= lo THEN st
    ELSE IF hi = lo + 1 THEN sha256_step(st, SHA256_K[lo + 1], w[lo + 1])
    ELSE sha256_rounds(sha256_rounds(st, w, lo, (lo + hi) \div 2), w, (lo + hi) \div 2, hi)

\* the state after the block at byte offset p
sha256_block(st, bytes, p) ==
    add_words(st, sha256_rounds(st, sha256_schedule(tuple([j \in 1..16 |-> be_word(bytes, p + 4 * (j - 1))]), 64), 0, 64))

\* the state after the blocks from byte offset p on
RECURSIVE sha256_blocks(_, _, _)
sha256_blocks(st, bytes, p) ==
    IF p >= Len(bytes) THEN st
    ELSE sha256_blocks(sha256_block(st, bytes, p), bytes, p + 64)

\* the bytes of a sequence of words
RECURSIVE words_be(_)
words_be(ws) == IF Len(ws) = 0 THEN <<>> ELSE word_be(Head(ws)) \o words_be(Tail(ws))

\* hashlib.sha256(bytes).digest()
sha256(bytes) == words_be(sha256_blocks(SHA256_H, sha256_padded(bytes), 0))

-----------------------------------------------------------------------------
(* Crypto.Cipher.AES (128-bit key, CBC), Crypto.Util.Padding and base64.   *)

\* a ^ b on bytes
xor8(a, b) == XorNibble[a % 16][b % 16] + 16 * XorNibble[a \div 16][b \div 16]

\* the byte-wise a ^ b of two byte strings of one length
xor_bytes(a, b) == tuple([k \in DOMAIN a |-> xor8(a[k], b[k])])

\* the S-box of AES (FIPS 197, figure 7), and its inverse
SBox ==
  <<
     99, 124, 119, 123, 242, 107, 111, 197, 48, 1, 103, 43, 254, 215, 171, 118,
     202, 130, 201, 125, 250, 89, 71, 240, 173, 212, 162, 175, 156, 164, 114, 192,
     183, 253, 147, 38, 54, 63, 247, 204, 52, 165, 229, 241, 113, 216, 49, 21,
     4, 199, 35, 195, 24, 150, 5, 154, 7, 18, 128, 226, 235, 39, 178, 117,
     9, 131, 44, 26, 27, 110, 90, 160, 82, 59, 214, 179, 41, 227, 47, 132,
     83, 209, 0, 237, 32, 252, 177, 91, 106, 203, 190, 57, 74, 76, 88, 207,
     208, 239, 170, 251, 67, 77, 51, 133, 69, 249, 2, 127, 80, 60, 159, 168,
     81, 163, 64, 143, 146, 157, 56, 245, 188, 182, 218, 33, 16, 255, 243, 210,
     205, 12, 19, 236, 95, 151, 68, 23, 196, 167, 126, 61, 100, 93, 25, 115,
     96, 129, 79, 220, 34, 42, 144, 136, 70, 238, 184, 20, 222, 94, 11, 219,
     224, 50, 58, 10, 73, 6, 36, 92, 194, 211, 172, 98, 145, 149, 228, 121,
     231, 200, 55, 109, 141, 213, 78, 169, 108, 86, 244, 234, 101, 122, 174, 8,
     186, 120, 37, 46, 28, 166, 180, 198, 232, 221, 116, 31, 75, 189, 139, 138,
     112, 62, 181, 102, 72, 3, 246, 14, 97, 53, 87, 185, 134, 193, 29, 158,
     225, 248, 152, 17, 105, 217, 142, 148, 155, 30, 135, 233, 206, 85, 40, 223,
     140, 161, 137, 13, 191, 230, 66, 104, 65, 153, 45, 15, 176, 84, 187, 22
  >>
InvSBox == [v \in 1..256 |-> (CHOOSE k \in 1..256 : SBox[k] = v - 1) - 1]

\* the product of a and {02} in GF(2^8)
xtime(a) == IF a < 128 THEN 2 * a ELSE xor8((2 * a) % 256, 27)

\* the product of a and n in GF(2^8)
RECURSIVE gmul(_, _)
gmul(a, n) == IF n = 0 THEN 0 ELSE xor8(IF n % 2 = 1 THEN a ELSE 0, gmul(xtime(a), n \div 2))

\* the state of AES holds byte k (from 0) of a block in row k mod 4 and column
\* k div 4
SubBytes(state) == tuple([k \in 1..16 |-> SBox[state[k] + 1]])
InvSubBytes(state) == tuple([k \in 1..16 |-> InvSBox[state[k] + 1]])
ShiftRows(state) == tuple([k \in 1..16 |-> state[1 + ((k - 1) % 4) + 4 * ((((k - 1) \div 4) + ((k - 1) % 4)) % 4)]])
InvShiftRows(state) == tuple([k \in 1..16 |-> state[1 + ((k - 1) % 4) + 4 * ((((k - 1) \div 4) + 4 - ((k - 1) % 4)) % 4)]])

\* byte k of the product of the columns of the state and the matrix whose
\* first row is m
mix_byte(state, m, k) ==
    xor8(xor8(gmul(state[k - ((k - 1) % 4)], m[1 + ((4 - ((k - 1) % 4)) % 4)]),
              gmul(state[k - ((k - 1) % 4) + 1], m[1 + ((5 - ((k - 1) % 4)) % 4)])),
         xor8(gmul(state[k - ((k - 1) % 4) + 2], m[1 + ((6 - ((k - 1) % 4)) % 4)]),
              gmul(state[k - ((k - 1) % 4) + 3], m[1 + ((7 - ((k - 1) % 4)) % 4)])))
MixColumns(state) == tuple([k \in 1..16 |-> mix_byte(state, <<2, 3, 1, 1>>, k)])
InvMixColumns(state) == tuple([k \in 1..16 |-> mix_byte(state, <<14, 11, 13, 9>>, k)])

\* the round constants of the key expansion
Rcon == <<1, 2, 4, 8, 16, 32, 64, 128, 27, 54>>

\* the word that the key expansion combines with the word four places back,
\* for the key bytes w so far (a multiple of four of them)
expansion_word(w) ==
    IF Len(w) % 16 = 0
    THEN <<xor8(SBox[w[Len(w) - 2] + 1], Rcon[Len(w) \div 16]), SBox[w[Len(w) - 1] + 1], SBox[w[Len(w)] + 1], SBox[w[Len(w) - 3] + 1]>>
    ELSE SubSeq(w, Len(w) - 3, Len(w))

\* the bytes w of an expanded key, extended to n words of four bytes
RECURSIVE expand_key(_, _)
expand_key(w, n) ==
    IF Len(w) >= 4 * n THEN w
    ELSE IF Len(w) + 4 = 4 * n THEN w \o xor_bytes(SubSeq(w, Len(w) - 15, Len(w) - 12), expansion_word(w))
    ELSE expand_key(expand_key(w, ((Len(w) \div 4) + n) \div 2), n)

\* the expanded key of a 16-byte key: 11 round keys of 16 bytes
KeyExpansion(key) == expand_key(key, 44)

\* round key r (from 0) of an expanded key
RoundKey(w, r) == SubSeq(w, 16 * r + 1, 16 * r + 16)

\* the rounds r..10 of the cipher
RECURSIVE cipher_rounds(_, _, _)
cipher_rounds(state, w, r) ==
    IF Len(state) # 16 \/ r > 10 THEN state
    ELSE IF r = 10 THEN xor_bytes(ShiftRows(SubBytes(state)), RoundKey(w, 10))
    ELSE cipher_rounds(xor_bytes(MixColumns(ShiftRows(SubBytes(state))), RoundKey(w, r)), w, r + 1)

\* the block that AES encrypts a block to under an expanded key
Cipher(block, w) == cipher_rounds(xor_bytes(block, RoundKey(w, 0)), w, 1)

\* the rounds r..1 of the inverse cipher
RECURSIVE inv_cipher_rounds(_, _, _)
inv_cipher_rounds(state, w, r) ==
    IF Len(state) # 16 \/ r < 0 THEN state
    ELSE IF r = 0 THEN xor_bytes(InvSubBytes(InvShiftRows(state)), RoundKey(w, 0))
    ELSE inv_cipher_rounds(InvMixColumns(xor_bytes(InvSubBytes(InvShiftRows(state)), RoundKey(w, r))), w, r - 1)

\* the block that AES decrypts a block to under an expanded key
InvCipher(block, w) == inv_cipher_rounds(xor_bytes(block, RoundKey(w, 10)), w, 9)

\* AES.new(key, AES.MODE_CBC, iv).encrypt(data): the blocks from byte offset
\* p on, previous being the ciphertext block before them (the iv at first)
RECURSIVE cbc_encrypt_from(_, _, _, _)
cbc_encrypt_from(data, w, previous, p) ==
    IF p >= Len(data) \/ Len(w) # 176 \/ Len(previous) # 16 THEN <<>>
    ELSE LET block == Cipher(xor_bytes(SubSeq(data, p + 1, p + 16), previous), w)
         IN  block \o cbc_encrypt_from(data, w, block, p + 16)
cbc_encrypt(key, iv, data) ==
    IF Len(key) # 16 \/ Len(iv) # 16 \/ Len(data) % 16 # 0 THEN Raise("ValueError")
    ELSE Ok(cbc_encrypt_from(data, KeyExpansion(key), iv, 0))

\* AES.new(key, AES.MODE_CBC, iv).decrypt(data)
RECURSIVE cbc_decrypt_from(_, _, _, _)
cbc_decrypt_from(data, w, previous, p) ==
    IF p >= Len(data) \/ Len(w) # 176 \/ Len(previous) # 16 THEN <<>>
    ELSE xor_bytes(InvCipher(SubSeq(data, p + 1, p + 16), w), previous)
         \o cbc_decrypt_from(data, w, SubSeq(data, p + 1, p + 16), p + 16)
cbc_decrypt(key, iv, data) ==
    IF Len(key) # 16 \/ Len(iv) # 16 \/ Len(data) % 16 # 0 THEN Raise("ValueError")
    ELSE Ok(cbc_decrypt_from(data, KeyExpansion(key), iv, 0))

\* Crypto.Util.Padding.pad(data, block_size): PKCS#7
pad(data, block_size) ==
    data \o tuple([k \in 1..(block_size - (Len(data) % block_size)) |-> block_size - (Len(data) % block_size)])

\* Crypto.Util.Padding.unpad(data, block_size): the data without its padding,
\* or ValueError for a padding that is not PKCS#7
unpad(data, block_size) ==
    IF Len(data) = 0 \/ Len(data) % block_size # 0 THEN Raise("ValueError")
    ELSE IF data[Len(data)] < 1 \/ data[Len(data)] > block_size THEN Raise("ValueError")
    ELSE IF \E k \in (Len(data) - data[Len(data)] + 1)..Len(data) : data[k] # data[Len(data)] THEN Raise("ValueError")
    ELSE Ok(SubSeq(data, 1, Len(data) - data[Len(data)]))

\* the alphabet of base64
Base64Alphabet == "ABCDEFGHIJKLMNOPQRSTUVWXYZabcdefghijklmnopqrstuvwxyz0123456789+/"
b64_char(n) == SubSeq(Base64Alphabet, n + 1, n + 1)
b64_value == [c \in {b64_char(n) : n \in 0..63} |-> CHOOSE n \in 0..63 : b64_char(n) = c]

\* the four characters for a group of one, two or three bytes
b64_group(data) ==
    IF Len(data) = 1
    THEN b64_char(data[1] \div 4) \o b64_char((data[1] % 4) * 16) \o "=="
    ELSE IF Len(data) = 2
    THEN b64_char(data[1] \div 4) \o b64_char((data[1] % 4) * 16 + (data[2] \div 16))
         \o b64_char((data[2] % 16) * 4) \o "="
    ELSE b64_char(data[1] \div 4) \o b64_char((data[1] % 4) * 16 + (data[2] \div 16))
         \o b64_char((data[2] % 16) * 4 + (data[3] \div 64)) \o b64_char(data[3] % 64)

\* base64.b64encode(data).decode("utf-8")
RECURSIVE b64encode(_)
b64encode(data) ==
    IF Len(data) = 0 THEN ""
    ELSE IF Len(data) <= 3 THEN b64_group(data)
    ELSE b64encode(SubSeq(data, 1, 3 * ((Len(data) + 2) \div 6)))
         \o b64encode(SubSeq(data, 3 * ((Len(data) + 2) \div 6) + 1, Len(data)))

\* the value of character k of a base64 text ("=" counts as 0)
b64_at(text, k) == IF SubSeq(text, k, k) = "=" THEN 0 ELSE b64_value[SubSeq(text, k, k)]

\* the bytes of a group of four characters
b64_bytes(text) ==
    SubSeq(<<b64_at(text, 1) * 4 + (b64_at(text, 2) \div 16),
             (b64_at(text, 2) % 16) * 16 + (b64_at(text, 3) \div 4),
             (b64_at(text, 3) % 4) * 64 + b64_at(text, 4)>>,
           1, IF SubSeq(text, 3, 4) = "==" THEN 1 ELSE IF SubSeq(text, 4, 4) = "=" THEN 2 ELSE 3)

\* base64.b64decode(text) for a text that b64encode produced
RECURSIVE b64decode(_)
b64decode(text) ==
    IF Len(text) = 0 THEN <<>>
    ELSE IF Len(text) <= 4 THEN b64_bytes(text)
    ELSE b64decode(SubSeq(text, 1, 4 * (Len(text) \div 8)))
         \o b64decode(SubSeq(text, 4 * (Len(text) \div 8) + 1, Len(text)))

-----------------------------------------------------------------------------
(* The functions of auth.py.                                               *)

\* the characters generate_random draws from: ascii_letters + digits
RandomChars == "abcdefghijklmnopqrstuvwxyzABCDEFGHIJKLMNOPQRSTUVWXYZ0123456789"

\* (variant) the digest is not uppercased
derive_aes_key_Lower(random_str) == SubSeq(hex(md5(encode(random_str))), 9, 24)

\* hashlib.md5(random_str.encode()).hexdigest().upper()[8:24]
derive_aes_key(random_str) == SubSeq(upper(hex(md5(encode(random_str)))), 9, 24)

\* (variant) the IV is the key itself
derive_iv_Key(aes_key) == aes_key

\* the IV that encrypt_password derives from the key: aes_key[8:16] + aes_key[0:8]
derive_iv(aes_key) == SubSeq(aes_key, 9, 16) \o SubSeq(aes_key, 1, 8)

\* encrypt_password, from the derived key on
encrypt_with_key(password, aes_key) ==
    b64encode(cbc_encrypt(encode(aes_key), encode(derive_iv(aes_key)), pad(encode(password), 16)).v)

\* base64(AES-CBC(key, iv, pad(password))), key = derive_aes_key(random_str)
encrypt_password(password, random_str) == encrypt_with_key(password, derive_aes_key(random_str))

\* (variant) the secret comes first
compute_signature_SecretFirst(email, encrypted_pwd, random_str, secret) ==
    hex(sha256(encode(secret \o email \o encrypted_pwd \o random_str)))

\* hashlib.sha256((email + encrypted_pwd + random_str + secret).encode("utf-8")).hexdigest()
compute_signature(email, encrypted_pwd, random_str, secret) ==
    hex(sha256(encode(email \o encrypted_pwd \o random_str \o secret)))

\* what decrypting ended with: the exception raised ("" if none) and the text
Decrypted(err, text) == [exc |-> err, text |-> text]

\* the text of a padded plaintext
unpadded_text(plain) == IF plain.exc # "" THEN Decrypted(plain.exc, "") ELSE Decrypted("", decode(plain.v))

\* the manual decryption of test_encrypt_decrypt_known_vector:
\* unpad(AES.new(key, CBC, iv).decrypt(base64.b64decode(encrypted_b64)), 16).decode("utf-8")
decrypt_password(encrypted_b64, aes_key, iv) ==
    unpadded_text(unpad(cbc_decrypt(encode(aes_key), encode(iv), b64decode(encrypted_b64)).v, 16))

-----------------------------------------------------------------------------
(* The session: PecronAPI (client.py).                                     *)

\* bool(v)
truthy(v) ==
    CASE v.t = "bool" -> v.b
      [] v.t = "int" -> v.n # 0
      [] v.t = "str" -> v.s # <<>>
      [] v.t \in {"list", "dict"} -> v.d # <<>>
      [] OTHER -> FALSE

\* PecronAPI(region): the fields of the object that the operations read or
\* write (_config and _base_url are REGIONS[region] and its base_url)
PecronAPI(region) ==
    [region |-> region, _access_token |-> None, _refresh_token |-> None]

\* (variant) the token behind a "Bearer " prefix
_headers_Bearer(self, uuid) ==
    [X_Q_Language |-> "en",
     quec_random_url |-> uuid,
     app_info |-> "[HomeAssistant][Python][pecron-api][1]",
     appId |-> APP_ID,
     appVersion |-> APP_VERSION,
     appSystemType |-> APP_SYSTEM_TYPE,
     Authorization |->
        IF truthy(self._access_token)
        THEN PyStr(<<"B", "e", "a", "r", "e", "r", " ">> \o self._access_token.s)
        ELSE Absent]

\* self._headers(), uuid being the value uuid.uuid4() draws
_headers(self, uuid) ==
    [X_Q_Language |-> "en",
     quec_random_url |-> uuid,
     app_info |-> "[HomeAssistant][Python][pecron-api][1]",
     appId |-> APP_ID,
     appVersion |-> APP_VERSION,
     appSystemType |-> APP_SYSTEM_TYPE,
     Authorization |->
        IF truthy(self._access_token) THEN self._access_token ELSE Absent]

\* the arguments of one self._session.request(...) call
Request(method, url, params, json, data, headers) ==
    [method |-> method, url |-> url, params |-> params, json |-> json,
     data |-> data, headers |-> headers]

\* the body of a response: the envelope {code, msg, data}
Envelope(code, msg, data) == [code |-> code, msg |-> msg, data |-> data]

\* what the upstream does with a request: failure is the exception that
\* session.request ("ConnectionError") or resp.raise_for_status ("HTTPError")
\* raises, or "" and then json is the body of the response
Reply(failure, json) == [failure |-> failure, json |-> json]

\* what _request did: the requests it handed to the transport, and the
\* exception it raised or the data it returned
Requested(requests, err, data) == [sent |-> requests, exc |-> err, data |-> data]

\* (variant) an envelope without a code is taken for success too
_request_NoCodeIsSuccess(self, method, path, params, json_body, form_data, uuid, answer) ==
    LET url == REGIONS[self.region].base_url \o path
        requests == <<Request(method, url, params, json_body, form_data,
                          _headers(self, uuid))>>
        code == get(answer.json.code, None)
        msg == get(answer.json.msg, PyStr(<<>>))
    IN  IF answer.failure # "" THEN Requested(requests, Error(answer.failure), None)
        ELSE IF code \notin {PyInt(200), None}
             THEN Requested(requests, PecronAPIError(msg, code), None)
        ELSE Requested(requests, NoException, get(answer.json.data, None))

\* (variant) a failure of the transport is raised as a PecronAPIError
_request_WrapsTransport(self, method, path, params, json_body, form_data, uuid, answer) ==
    LET url == REGIONS[self.region].base_url \o path
        requests == <<Request(method, url, params, json_body, form_data,
                          _headers(self, uuid))>>
        code == get(answer.json.code, None)
        msg == get(answer.json.msg, PyStr(<<>>))
    IN  IF answer.failure # "" THEN Requested(requests, PecronAPIError(PyStr(<<>>), None), None)
        ELSE IF code # PyInt(200)
             THEN Requested(requests, PecronAPIError(msg, code), None)
        ELSE Requested(requests, NoException, get(answer.json.data, None))

\* self._request(method, path, params, json_body, form_data), answer being
\* what the upstream does with the request
_request(self, method, path, params, json_body, form_data, uuid, answer) ==
    LET url == REGIONS[self.region].base_url \o path
        requests == <<Request(method, url, params, json_body, form_data,
                          _headers(self, uuid))>>
        code == get(answer.json.code, None)
        msg == get(answer.json.msg, PyStr(<<>>))
    IN  IF answer.failure # "" THEN Requested(requests, Error(answer.failure), None)
        ELSE IF code # PyInt(200)
             THEN Requested(requests, PecronAPIError(msg, code), None)
        ELSE Requested(requests, NoException, get(answer.json.data, None))

\* what an operation did: the session after it, the requests it handed to the
\* transport, and the exception it raised or the value it returned
Outcome(self, requests, err, value) ==
    [self |-> self, sent |-> requests, exc |-> err, value |-> value]

\* (variant) the code of the failure is dropped
login_except_NoCode(err) == AuthenticationError(err.message, None)

\* except PecronAPIError as err: raise AuthenticationError(err.message, code=err.code)
login_except(err) == AuthenticationError(err.message, err.code)

\* an accessToken / refreshToken object of the login response
Token(token) == [t |-> "dict", token |-> token, expirationTime |-> Absent]

\* the same with an expirationTime
ExpiringToken(token, expirationTime) ==
    [t |-> "dict", token |-> token, expirationTime |-> expirationTime]

\* the data of a login response
LoginData(accessToken, refreshToken) ==
    [t |-> "dict", accessToken |-> accessToken, refreshToken |-> refreshToken]

\* res[key]["token"] raises KeyError
NoTokenAt(field) == field = Absent \/ field.token = Absent

\* (variant) the signature is computed over the derived key, not the nonce
login_body_SignsKey(self, email, password, random_str) ==
    [email |-> email,
     pwd |-> encrypt_password(password, random_str),
     random |-> random_str,
     userDomain |-> REGIONS[self.region].user_domain,
     signature |-> compute_signature(email, encrypt_password(password, random_str),
                                     derive_aes_key(random_str),
                                     REGIONS[self.region].user_domain_secret)]

\* (variant) the password is posted as it is
login_body_PlainPassword(self, email, password, random_str) ==
    [email |-> email,
     pwd |-> password,
     random |-> random_str,
     userDomain |-> REGIONS[self.region].user_domain,
     signature |-> compute_signature(email, password, random_str,
                                     REGIONS[self.region].user_domain_secret)]

\* the form that login posts: encrypted_pwd and signature computed from the
\* one random_str, user domain and secret being those of the session's region
login_body(self, email, password, random_str) ==
    [email |-> email,
     pwd |-> encrypt_password(password, random_str),
     random |-> random_str,
     userDomain |-> REGIONS[self.region].user_domain,
     signature |-> compute_signature(email, encrypt_password(password, random_str),
                                     random_str,
                                     REGIONS[self.region].user_domain_secret)]

\* self.login(email, password), random_str being the value generate_random()
\* returns
login(self, email, password, random_str, uuid, answer) ==
    LET body == login_body(self, email, password, random_str)
        r == _request(self, "POST", "/v2/enduser/enduserapi/emailPwdLogin",
                      None, None, body, uuid, answer)
        res == r.data
    IN  IF IsPecronAPIError(r.exc)
        THEN Outcome(self, r.sent, login_except(r.exc), None)
        ELSE IF r.exc # NoException THEN Outcome(self, r.sent, r.exc, None)
        ELSE IF res.t # "dict" THEN Outcome(self, r.sent, Error("TypeError"), None)
        ELSE IF NoTokenAt(res.accessToken)
             THEN Outcome(self, r.sent, Error("KeyError"), None)
        ELSE LET stored == [self EXCEPT !._access_token = res.accessToken.token]
             IN  IF NoTokenAt(res.refreshToken)
                 THEN Outcome(stored, r.sent, Error("KeyError"), None)
                 ELSE Outcome([stored EXCEPT
                                  !._refresh_token = res.refreshToken.token],
                              r.sent, NoException, None)

\* a record of the logger: _LOGGER.debug(msg, *args)
LogRecord(level, msg, args) == [level |-> level, msg |-> msg, args |-> args]

\* what a login that did done wrote to the logger: one record when it
\* returned, holding result["accessToken"].get("expirationTime")
login_logged(done, answer) ==
    IF done.exc # NoException THEN <<>>
    ELSE <<LogRecord("DEBUG", "Login successful, token expires %s",
                     <<get(answer.json.data.accessToken.expirationTime, None)>>)>>

\* the dataclass Device
Device(device_name, product_key, device_key, product_name, online, protocol, firmware_version, mcu_version, device_sn, signal_strength, last_conn_time) ==
    [device_name |-> device_name,
     product_key |-> product_key,
     device_key |-> device_key,
     product_name |-> product_name,
     online |-> online,
     protocol |-> protocol,
     firmware_version |-> firmware_version,
     mcu_version |-> mcu_version,
     device_sn |-> device_sn,
     signal_strength |-> signal_strength,
     last_conn_time |-> last_conn_time]

\* an entry of the userDeviceList response
DeviceEntry(deviceName, productKey, deviceKey, productName, onlineStatus, protocol, sn, signalStrength, lastConnTime) ==
    [deviceName |-> deviceName,
     productKey |-> productKey,
     deviceKey |-> deviceKey,
     productName |-> productName,
     onlineStatus |-> onlineStatus,
     protocol |-> protocol,
     sn |-> sn,
     signalStrength |-> signalStrength,
     lastConnTime |-> lastConnTime]

\* v == 1
equals_one(v) == v = PyInt(1) \/ v = PyBool(TRUE)

\* Device.from_api(data)
Device_from_api(data) ==
    Device(get(data.deviceName, PyStr(<<"U", "n", "k", "n", "o", "w", "n">>)),
           get(data.productKey, PyStr(<<>>)),
           get(data.deviceKey, PyStr(<<>>)),
           get(data.productName, PyStr(<<>>)),
           equals_one(get(data.onlineStatus, None)),
           get(data.protocol, PyStr(<<>>)),
           None,
           None,
           get(data.sn, None),
           get(data.signalStrength, None),
           get(data.lastConnTime, None))

\* the data of a userDeviceList response that is an object
DeviceListData(list) == [t |-> "dict", list |-> list]

\* self.get_devices()
get_devices(self, uuid, answer) ==
    LET r == _request(self, "GET", "/v2/binding/enduserapi/userDeviceList",
                      None, None, None, uuid, answer)
        res == r.data
        raw_list == IF res.t = "dict" /\ res.list # Absent
                    THEN res.list
                    ELSE res
    IN  IF r.exc # NoException THEN Outcome(self, r.sent, r.exc, None)
        ELSE IF raw_list.t = "list"
             THEN Outcome(self, r.sent, NoException,
                          [k \in DOMAIN raw_list.d |-> Device_from_api(raw_list.d[k])])
        ELSE IF raw_list.t = "dict" THEN Outcome(self, r.sent, NoException, <<>>)
        ELSE Outcome(self, r.sent, Error("TypeError"), None)

RECURSIVE from_api_loop(_, _, _)
\* the for loop of DeviceProperties.from_api from the k-th item on
from_api_loop(self, infos, k) ==
    IF k > Len(infos) THEN [exc |-> "", self |-> self]
    ELSE LET done == from_api_item(self, infos[k])
         IN  IF done.exc # "" THEN done
             ELSE from_api_loop(done.self, infos, k + 1)

\* DeviceProperties.from_api(infos)
DeviceProperties_from_api(infos) ==
    from_api_loop(DeviceProperties(infos), infos, 1)

\* the deviceData object of a getDeviceBusinessAttributes response
DeviceData(version, mcuVersion) ==
    [t |-> "dict", version |-> version, mcuVersion |-> mcuVersion]

\* the data of a getDeviceBusinessAttributes response
AttributesData(deviceData, customizeTslInfo) ==
    [t |-> "dict", deviceData |-> deviceData, customizeTslInfo |-> customizeTslInfo]

\* res.get("deviceData") or {}
device_data_or_empty(deviceData) ==
    IF deviceData.t = "dict" THEN deviceData ELSE DeviceData(Absent, Absent)

\* (variant) only the code 404 is taken for a missing dvc
get_device_properties_except_Only404(err) ==
    IF truthy(err.code) /\ err.code \in {PyInt(404)}
    THEN DeviceNotFoundError(err.message, err.code)
    ELSE err

\* except PecronAPIError as err: DeviceNotFoundError for 404 and 4004, else
\* the exception itself
get_device_properties_except(err) ==
    IF truthy(err.code) /\ err.code \in {PyInt(404), PyInt(4004)}
    THEN DeviceNotFoundError(err.message, err.code)
    ELSE err

\* "if device_data.get("version"): dvc.firmware_version = ..." and the same
\* for mcuVersion: the dvc after the two statements
update_device(dvc, device_data) ==
    [dvc EXCEPT
        !.firmware_version = IF truthy(get(device_data.version, None))
                             THEN device_data.version
                             ELSE @,
        !.mcu_version = IF truthy(get(device_data.mcuVersion, None))
                        THEN device_data.mcuVersion
                        ELSE @]

\* "return DeviceProperties.from_api(tsl_info)", decoded being what from_api
\* did and dvc the device after the update
get_device_properties_return(self, requests, dvc, decoded) ==
    IF decoded.exc # ""
    THEN [device |-> dvc, done |-> Outcome(self, requests, Error(decoded.exc), None)]
    ELSE [device |-> dvc, done |-> Outcome(self, requests, NoException, decoded.self)]

\* get_device_properties from the end of its self._request call on, r being
\* what _request did
get_device_properties_after(self, dvc, r) ==
    IF IsPecronAPIError(r.exc)
    THEN [device |-> dvc,
          done |-> Outcome(self, r.sent, get_device_properties_except(r.exc), None)]
    ELSE IF r.exc # NoException
    THEN [device |-> dvc, done |-> Outcome(self, r.sent, r.exc, None)]
    ELSE IF r.data.t # "dict"
    THEN [device |-> dvc,
          done |-> Outcome(self, r.sent, Error("AttributeError"), None)]
    ELSE get_device_properties_return(
             self, r.sent,
             update_device(dvc, device_data_or_empty(get(r.data.deviceData, None))),
             DeviceProperties_from_api(
                 or_empty_list(get(r.data.customizeTslInfo, None))))

\* self.get_device_properties(dvc); the dvc is changed in place, so it
\* is part of what the call did
get_device_properties(self, dvc, uuid, answer) ==
    get_device_properties_after(
        self, dvc,
        _request(self, "GET",
                 "/v2/binding/enduserapi/getDeviceBusinessAttributes",
                 [pk |-> dvc.product_key, dk |-> dvc.device_key],
                 None, None, uuid, answer))

\* the keys that the operations read from or write to JSON objects
k_tslJson == <<"t", "s", "l", "J", "s", "o", "n">>
k_properties == <<"p", "r", "o", "p", "e", "r", "t", "i", "e", "s">>
k_subType == <<"s", "u", "b", "T", "y", "p", "e">>
k_code == <<"c", "o", "d", "e">>
k_resourceCode == <<"r", "e", "s", "o", "u", "r", "c", "e", "C", "o", "d", "e">>
k_name == <<"n", "a", "m", "e">>
k_dataType == <<"d", "a", "t", "a", "T", "y", "p", "e">>
k_data == <<"d", "a", "t", "a">>
k_deviceList == <<"d", "e", "v", "i", "c", "e", "L", "i", "s", "t">>
k_productKey == <<"p", "r", "o", "d", "u", "c", "t", "K", "e", "y">>
k_deviceKey == <<"d", "e", "v", "i", "c", "e", "K", "e", "y">>
k_type == <<"t", "y", "p", "e">>

\* obj.get(key, default) on a dict
dict_get(obj, key, default) ==
    IF \E k \in DOMAIN obj.d : obj.d[k][1] = key
    THEN obj.d[CHOOSE k \in DOMAIN obj.d : obj.d[k][1] = key][2]
    ELSE default

\* the dataclass TslProperty
TslProperty(code, name, data_type, sub_type, writable) ==
    [code |-> code, name |-> name, data_type |-> data_type,
     sub_type |-> sub_type, writable |-> writable]

s_R == <<"R">>
s_W == <<"W">>
s_RW == <<"R", "W">>

\* (variant) writable for "RW" alone
TslProperty_from_api_OnlyRW(data) ==
    LET sub_type == dict_get(data, k_subType, PyStr(s_R))
    IN  TslProperty(dict_get(data, k_code, dict_get(data, k_resourceCode, PyStr(<<>>))),
                    dict_get(data, k_name, PyStr(<<>>)),
                    dict_get(data, k_dataType, PyStr(<<>>)),
                    sub_type,
                    sub_type \in {PyStr(s_RW)})

\* TslProperty.from_api(data)
TslProperty_from_api(data) ==
    LET sub_type == dict_get(data, k_subType, PyStr(s_R))
    IN  TslProperty(dict_get(data, k_code, dict_get(data, k_resourceCode, PyStr(<<>>))),
                    dict_get(data, k_name, PyStr(<<>>)),
                    dict_get(data, k_dataType, PyStr(<<>>)),
                    sub_type,
                    sub_type \in {PyStr(s_RW), PyStr(s_W)})

\* (variant) a tslJson string is not decoded
raw_props_NoDecode(res) ==
    IF res.t = "dict"
    THEN LET tsl_json == dict_get(res, k_tslJson, None)
         IN  IF tsl_json.t = "dict"
             THEN Ok(dict_get(tsl_json, k_properties, PyList(<<>>)))
             ELSE Ok(dict_get(res, k_properties, PyList(<<>>)))
    ELSE IF res.t = "list" THEN Ok(res)
    ELSE Ok(PyList(<<>>))

\* the value get_product_tsl gives raw_props for a res, or the exception
\* json.loads raises
raw_props(res) ==
    IF res.t = "dict"
    THEN LET field == dict_get(res, k_tslJson, None)
             loaded == IF field.t = "str" THEN json_loads(field) ELSE Ok(field)
             tsl_json == loaded.v
         IN  IF loaded.exc # "" THEN loaded
             ELSE IF tsl_json.t = "dict"
                  THEN Ok(dict_get(tsl_json, k_properties, PyList(<<>>)))
             ELSE Ok(dict_get(res, k_properties, PyList(<<>>)))
    ELSE IF res.t = "list" THEN Ok(res)
    ELSE Ok(PyList(<<>>))

\* "for item in raw_props: properties.append(TslProperty.from_api(item))":
\* the list, or the exception of iterating raw_props or of item.get
tsl_properties(props_value) ==
    CASE props_value.t = "list" ->
            IF \E k \in DOMAIN props_value.d : props_value.d[k].t # "dict"
            THEN Raise("AttributeError")
            ELSE Ok([k \in DOMAIN props_value.d |-> TslProperty_from_api(props_value.d[k])])
      [] props_value.t = "str" ->
            IF props_value.s = <<>> THEN Ok(<<>>) ELSE Raise("AttributeError")
      [] props_value.t = "dict" ->
            IF props_value.d = <<>> THEN Ok(<<>>) ELSE Raise("AttributeError")
      [] OTHER -> Raise("TypeError")

\* "return properties", properties being the list the for loop built or the
\* exception it raised
get_product_tsl_return(self, requests, properties) ==
    IF properties.exc # ""
    THEN Outcome(self, requests, Error(properties.exc), None)
    ELSE Outcome(self, requests, NoException, properties.v)

\* the for loop of get_product_tsl, found being raw_props or the exception
\* json.loads raised
get_product_tsl_loop(self, requests, found) ==
    IF found.exc # ""
    THEN Outcome(self, requests, Error(found.exc), None)
    ELSE get_product_tsl_return(self, requests, tsl_properties(found.v))

\* get_product_tsl from the end of its self._request call on, r being what
\* _request did
get_product_tsl_after(self, r) ==
    IF r.exc # NoException
    THEN Outcome(self, r.sent, r.exc, None)
    ELSE get_product_tsl_loop(self, r.sent, raw_props(r.data))

\* self.get_product_tsl(dvc)
get_product_tsl(self, dvc, uuid, answer) ==
    get_product_tsl_after(
        self,
        _request(self, "GET", "/v2/binding/enduserapi/productTSL",
                 [productKey |-> dvc.product_key], None, None, uuid, answer))

\* (variant) the entries in the reverse of the mapping's order
data_list_Reversed(properties) ==
    PyList([k \in DOMAIN properties.d |->
               PyDict(<<properties.d[Len(properties.d) + 1 - k]>>)])

\* [{code: value} for code, value in properties.items()]
data_list(properties) ==
    PyList([k \in DOMAIN properties.d |-> PyDict(<<properties.d[k]>>)])

\* the dict batch_param of set_device_property
batch_param(dvc, properties) ==
    PyDict(<< <<k_data, PyStr(json_dumps(data_list(properties)))>>,
              <<k_deviceList,
                PyList(<<PyDict(<< <<k_productKey, dvc.product_key>>,
                                   <<k_deviceKey, dvc.device_key>> >>)>>)>>,
              <<k_type, PyInt(0)>> >>)

\* except PecronAPIError as err: raise CommandError(err.message, code=err.code)
set_device_property_except(err) == CommandError(err.message, err.code)

\* self.set_device_property(dvc, properties)
set_device_property(self, dvc, properties, uuid, answer) ==
    LET r == _request(self, "POST", "/v2/binding/enduserapi/batchControlDevice",
                      None, None,
                      [json |-> PyStr(json_dumps(batch_param(dvc, properties)))],
                      uuid, answer)
        res == r.data
    IN  IF IsPecronAPIError(r.exc)
        THEN Outcome(self, r.sent, set_device_property_except(r.exc), None)
        ELSE IF r.exc # NoException THEN Outcome(self, r.sent, r.exc, None)
        ELSE IF res = None
             THEN Outcome(self, r.sent, Error("AttributeError"), None)
        ELSE Outcome(self, r.sent, NoException,
                     CommandResult_from_api(res, dvc.product_key,
                                            dvc.device_key))

\* self.close(): self._session.close() hands nothing to the transport and
\* leaves the fields of the session as they are
close(self) == Outcome(self, <<>>, NoException, None)

-----------------------------------------------------------------------------
(* The command line (cli.py): the loops of _cmd_status and _cmd_set over   *)
(* the devices that _filter_devices selected.  A run holds what the loop   *)
(* did: attempts is one entry for each call of get_device_properties or    *)
(* set_device_property, in the order of the calls; stdout and stderr are   *)
(* what was printed, a line being the tuple of its parts; status is the    *)
(* exit status of the process and escaped the exception that left the      *)
(* command (an exception that leaves main ends the process with a          *)
(* traceback and the status 1).                                            *)

CliRun(command, json_output, properties, api, devices, attempts, all_results, exit_code, stdout, stderr, at, status, escaped) ==
    [command |-> command, json_output |-> json_output, properties |-> properties,
     api |-> api, devices |-> devices, attempts |-> attempts,
     all_results |-> all_results, exit_code |-> exit_code,
     stdout |-> stdout, stderr |-> stderr, at |-> at, status |-> status,
     escaped |-> escaped]

\* one call of the loop: the device it was made on, and how it ended
Attempt(dvc, done) ==
    [device_name |-> dvc.device_name, product_key |-> dvc.product_key,
     device_key |-> dvc.device_key, exc |-> done.exc, value |-> done.value]

\* the run after a call of the loop on its next device: the call is noted,
\* and the device and the session are as the call left them
attempted(run, dvc, done) ==
    [run EXCEPT !.attempts = Append(@, Attempt(dvc, done)),
                !.devices[Len(run.attempts) + 1] = dvc,
                !.api = done.self]

\* an exception that no except clause of the command catches
escapes(run, err) == [run EXCEPT !.at = "ended", !.status = 1, !.escaped = err]

\* the entry of a device in the JSON output of status
status_entry(dvc, properties) ==
    [device |-> dvc.device_name,
     product |-> dvc.product_name,
     online |-> dvc.online,
     firmware |-> dvc.firmware_version,
     battery_pct |-> properties.battery_percentage,
     input_watts |-> properties.total_input_power,
     output_watts |-> properties.total_output_power,
     ac_switch |-> properties.ac_switch,
     dc_switch |-> properties.dc_switch,
     ups_mode |-> properties.ups_status,
     charge_minutes |-> properties.remain_charging_time,
     discharge_minutes |-> properties.remain_discharging_time,
     ac_output |-> properties.ac_output,
     dc_output |-> properties.dc_output,
     ac_input |-> properties.ac_input,
     dc_input |-> properties.dc_input]

\* one iteration of the loop of _cmd_status, from the end of its
\* api.get_device_properties(dev) call on: tried is the run with the call
\* noted, dvc the device after the call and done what the call did
_cmd_status_after(tried, dvc, done) ==
    IF IsPecronAPIError(done.exc)
    THEN [tried EXCEPT !.stderr = Append(@, <<"Error fetching", dvc.device_name, done.exc>>)]
    ELSE IF done.exc # NoException THEN escapes(tried, done.exc)
    ELSE IF tried.json_output
    THEN [tried EXCEPT !.all_results = Append(@, status_entry(dvc, done.value))]
    ELSE [tried EXCEPT !.stdout = Append(@, <<"_print_device_status", dvc, done.value>>)]

\* one iteration of the loop of _cmd_status, did being what
\* api.get_device_properties(dev) did
_cmd_status_device(run, did) ==
    _cmd_status_after(attempted(run, did.device, did.done), did.device, did.done)

\* the lines of a command after its loop: the JSON output
print_all_results(run) ==
    IF run.json_output
    THEN [run EXCEPT !.stdout = Append(@, <<"json.dumps", run.all_results>>)]
    ELSE run

\* _cmd_status after its loop
_cmd_status_end(run) == [print_all_results(run) EXCEPT !.at = "ended", !.status = 0]

\* the entry of a device in the JSON output of set
set_entry(dvc, outcome) ==
    [device |-> dvc.device_name, success |-> outcome.success,
     ticket |-> outcome.ticket, error |-> outcome.error_message]

\* one iteration of the loop of _cmd_set, from the end of its
\* api.set_device_property(dev, properties) call on
_cmd_set_after(tried, dvc, done) ==
    IF IsPecronAPIError(done.exc)
    THEN [tried EXCEPT !.stderr = Append(@, <<"Error sending command to", dvc.device_name, done.exc>>),
                       !.exit_code = 1]
    ELSE IF done.exc # NoException THEN escapes(tried, done.exc)
    ELSE IF tried.json_output
    THEN [tried EXCEPT !.all_results = Append(@, set_entry(dvc, done.value))]
    ELSE IF done.value.success
    THEN [tried EXCEPT !.stdout = Append(@, <<dvc.device_name, "OK", tried.properties>>)]
    ELSE [tried EXCEPT !.stderr = Append(@, <<dvc.device_name, "FAILED", done.value.error_message>>),
                       !.exit_code = 1]

\* one iteration of the loop of _cmd_set, done being what
\* api.set_device_property(dev, properties) did on the device dvc
_cmd_set_device(run, dvc, done) == _cmd_set_after(attempted(run, dvc, done), dvc, done)

\* _cmd_set after its loop: "if exit_code: sys.exit(exit_code)"
_cmd_set_end(run) == [print_all_results(run) EXCEPT !.at = "ended", !.status = run.exit_code]

-----------------------------------------------------------------------------
(* Inputs.                                                                 *)

IntCodes ==
    {"battery_percentage", "total_input_power", "total_output_power",
     "remain_charging_time", "remain_time"}
BoolCodes == {"ac_switch_hm", "dc_switch_hm", "ups_status_hm"}
StructCodes ==
    {"ac_data_output_hm", "dc_data_output_hm", "ac_data_input_hm", "dc_data_input_hm"}

s_98 == <<"9", "8">>
s_0 == <<"0">>
s_not_a_number == <<"n", "o">>
s_true == <<"t", "r", "u", "e">>
s_True == <<"T", "r", "u", "E">>
s_false == <<"f", "a", "l", "s", "e">>
\* {"a":"1"}
s_object == <<"{", "\"", "a", "\"", ":", "\"", "1", "\"", "}">>
\* {"a":
s_malformed == <<"{", "\"", "a", "\"", ":">>

\* the property records the upstream may send
Items ==
    {Item(c, PyStr(v), "INT") : c \in IntCodes, v \in {s_98, s_not_a_number}}
    \cup {Item("battery_percentage", v, "INT") :
             v \in {PyStr(s_0), PyStr(<<>>), Absent, None, PyBool(FALSE)}}
    \cup {Item(c, PyStr(v), "BOOL") : c \in BoolCodes, v \in {s_True, s_false}}
    \cup {Item("ac_switch_hm", v, "BOOL") :
             v \in {PyStr(s_true), PyStr(<<>>), Absent, None, PyBool(TRUE)}}
    \cup {Item(c, PyStr(v), "STRUCT") : c \in StructCodes, v \in {s_object, s_malformed}}
    \cup {Item(c, PyStr(s_object), "TEXT") : c \in StructCodes}
    \cup {Item("ac_data_output_hm", PyStr(s_object), NoKey),
          Item("ac_data_output_hm", None, "STRUCT"),
          Item("ac_data_output_hm", PyStr(s_98), "STRUCT")}
    \cup {Item("unknown_code", PyStr(s_98), "INT"), Item(NoKey, PyStr(s_98), NoKey)}

\* the codes get_by_code is asked for
QueryCodes == {"battery_percentage", "ac_switch_hm", "unknown_code", "nonexistent"}

SeqsUpTo(S, n) == UNION {[1..m -> S] : m \in 0..n}

pk1 == PyStr(<<"p", "k", "1">>)
pk2 == PyStr(<<"p", "k", "2">>)
dk1 == PyStr(<<"d", "k", "1">>)
dk2 == PyStr(<<"d", "k", "2">>)
t1 == PyStr(<<"t", "1">>)
t2 == PyStr(<<"t", "2">>)
m1 == PyStr(<<"m", "1">>)
m2 == PyStr(<<"m", "2">>)

\* the entries the upstream may put in successList
SuccessEntries ==
    {Entry(Data(pk1, dk1), t, Absent) : t \in {t1, t2, Absent}}
    \cup {Entry(d, t1, Absent) :
             d \in {Data(pk1, dk2), Data(pk2, dk1), Data(pk1, Absent),
                    NoData("none"), NoData("absent")}}

\* the entries the upstream may put in failureList
FailureEntries ==
    {Entry(Data(pk1, dk1), Absent, m) : m \in {m1, m2, Absent}}
    \cup {Entry(d, Absent, m1) :
             d \in {Data(pk1, dk2), Data(pk2, dk1), NoData("none")}}

Lists(entries) ==
    {NoList("absent"), NoList("none")}
    \cup {List(l) : l \in SeqsUpTo(entries, MaxList)}

Responses ==
    {[successList |-> a, failureList |-> r] :
        a \in Lists(SuccessEntries), r \in Lists(FailureEntries)}

\* the devices commands are sent to
Devices == {<<pk1, dk1>>, <<pk2, dk1>>}

\* the regions sessions are made for
SessionRegions == DOMAIN REGIONS

\* the accounts that log in, and the values generate_random and uuid4 draw
Emails == {"user@example.com"}
Passwords == {"correct horse", "Tr0ub4dor&3"}
Nonces == {"Xt9kMpQr2sWvYzAb", "q7ZkB2mW9xTfL0aC"}
Uuids == {"uuid-1"}

\* an expirationTime of the upstream
expires == PyInt(1790000000)

\* token strings of the upstream
a1 == PyStr(<<"A", "1">>)
a2 == PyStr(<<"A", "2">>)
r1 == PyStr(<<"R", "1">>)
r2 == PyStr(<<"R", "2">>)

\* the upstream's msg texts and firmware versions
msg_denied == PyStr(<<"d", "e", "n", "i", "e", "d">>)
v1 == PyStr(<<"1", ".", "0">>)
v2 == PyStr(<<"2", ".", "0">>)
u1 == PyStr(<<"m", "1">>)

\* the replies in which the transport fails
TransportFailures ==
    {Reply(failure, Envelope(Absent, Absent, Absent)) :
        failure \in {"ConnectionError", "HTTPError"}}

\* the codes other than 200 that the upstream answers with (Absent: no code)
ErrorCodes == {PyInt(0), PyInt(404), PyInt(4004), PyInt(500), Absent}

\* the replies whose code is not 200; payload is a value the upstream may
\* still put in data
ErrorReplies(payload) ==
    {Reply("", Envelope(code, msg_denied, None)) : code \in ErrorCodes}
    \cup {Reply("", Envelope(PyInt(500), Absent, None)),
          Reply("", Envelope(PyInt(500), msg_denied, payload))}

\* the replies of code 200 that hold one of the payloads
OkReplies(payloads) ==
    {Reply("", Envelope(PyInt(200), msg, data)) :
        msg \in {PyStr(<<>>)}, data \in payloads}

LoginPayloads ==
    {LoginData(Token(a1), Token(r1)),
     LoginData(Token(a2), Token(r2)),
     LoginData(ExpiringToken(a1, expires), Token(r2)),
     LoginData(Token(a1), Absent),
     LoginData(Absent, Token(r1)),
     None}

LoginReplies ==
    TransportFailures
    \cup ErrorReplies(LoginData(Token(a2), Token(r2)))
    \cup OkReplies(LoginPayloads)

entry1 ==
    DeviceEntry(PyStr(<<"E", "3", "0", "0">>), pk1, dk1, PyStr(<<"P">>), PyInt(1),
                PyStr(<<"M", "Q", "T", "T">>), PyStr(<<"S", "N">>), PyInt(4),
                PyStr(<<"n", "o", "w">>))
entry2 ==
    DeviceEntry(Absent, pk2, dk1, Absent, PyInt(0), Absent, Absent, Absent, Absent)

DeviceListPayloads ==
    {PyList(<<>>),
     PyList(<<entry1, entry2>>),
     DeviceListData(PyList(<<entry1>>)),
     None}

DeviceListReplies ==
    TransportFailures \cup ErrorReplies(PyList(<<entry1>>)) \cup OkReplies(DeviceListPayloads)

\* the devices a caller holds: the one get_devices made of entry1, as it was
\* made and with the versions an earlier get_device_properties gave it
TheDevice == Device_from_api(entry1)
VersionedDevice ==
    [TheDevice EXCEPT !.firmware_version = v1, !.mcu_version = u1]
SessionDevices == {TheDevice, VersionedDevice}

\* the device of a call that takes none
NoDevice == Device(None, None, None, None, FALSE, None, None, None, None, None, None)

item_battery == Item("battery_percentage", PyStr(s_98), "INT")
item_null_switch == Item("ac_switch_hm", None, "BOOL")

AttributesPayloads ==
    {AttributesData(deviceData, customizeTslInfo) :
        deviceData \in {Absent, None,
                        DeviceData(PyStr(<<>>), Absent),
                        DeviceData(v1, Absent),
                        DeviceData(v2, u1)},
        customizeTslInfo \in {Absent, List(<<item_battery>>),
                              List(<<item_null_switch>>)}}
    \cup {None}

AttributesReplies ==
    TransportFailures
    \cup ErrorReplies(AttributesData(DeviceData(v2, u1), List(<<item_battery>>)))
    \cup OkReplies(AttributesPayloads)

\* the longest entry list of a productTSL response
MaxEntries == 2

\* entries of a productTSL response
tsl_rw ==
    PyDict(<< <<k_code, PyStr(<<"a">>)>>, <<k_name, PyStr(<<"A", "C">>)>>,
              <<k_dataType, PyStr(<<"B", "O", "O", "L">>)>>,
              <<k_subType, PyStr(s_RW)>> >>)
tsl_w == PyDict(<< <<k_resourceCode, PyStr(<<"b">>)>>, <<k_subType, PyStr(s_W)>> >>)
tsl_bare == PyDict(<< <<k_code, PyStr(<<"d">>)>> >>)

TslEntries == {tsl_rw, tsl_w, tsl_bare}
TslEntryLists == SeqsUpTo(TslEntries, MaxEntries)

\* the three shapes of a productTSL response for one entry list
ShapeTslJson(entries) ==
    PyDict(<< <<k_tslJson,
                PyStr(json_dumps(PyDict(<< <<k_properties, PyList(entries)>> >>)))>> >>)
ShapeProperties(entries) == PyDict(<< <<k_properties, PyList(entries)>> >>)
ShapeList(entries) == PyList(entries)

TslPayloads ==
    {ShapeTslJson(entries) : entries \in TslEntryLists}
    \cup {ShapeProperties(entries) : entries \in TslEntryLists}
    \cup {ShapeList(entries) : entries \in TslEntryLists}
    \cup {PyDict(<<>>), None, PyDict(<< <<k_tslJson, PyStr(s_malformed)>> >>)}

TslReplies ==
    TransportFailures \cup ErrorReplies(ShapeList(<<tsl_rw>>)) \cup OkReplies(TslPayloads)

\* the largest mapping passed to set_device_property
MaxProps == 2

\* the (code, value) pairs a caller sets
PropertyPairs ==
    {<<(<<"a", "c">>), PyBool(TRUE)>>,
     <<(<<"n", "m">>), PyStr(<<"a", "\"", "b">>)>>,
     <<(<<"l", "v">>), PyInt(12)>>}

\* the mappings of at most MaxProps pairs: no code twice
PropertyMaps ==
    {PyDict(d) : d \in {m \in SeqsUpTo(PropertyPairs, MaxProps) :
                           \A j, k \in DOMAIN m : j # k => m[j][1] # m[k][1]}}

CommandPayloads ==
    {[successList |-> List(<<Entry(Data(pk1, dk1), t1, Absent)>>),
      failureList |-> NoList("absent")],
     [successList |-> List(<<>>),
      failureList |-> List(<<Entry(Data(pk1, dk1), Absent, m1)>>)],
     [successList |-> NoList("absent"), failureList |-> NoList("absent")],
     None}

CommandReplies ==
    TransportFailures
    \cup ErrorReplies([successList |-> List(<<Entry(Data(pk1, dk1), t1, Absent)>>),
                       failureList |-> NoList("absent")])
    \cup OkReplies(CommandPayloads)

-----------------------------------------------------------------------------
(* Decoding a property list: DeviceProperties.from_api, then get_by_code   *)
(* on the instance it returned.                                            *)

NoLookup == [code |-> NoKey, value |-> None]
NoResult == CommandResult(FALSE, None, None)
IdleCommand ==
    /\ response = [successList |-> NoList("absent"), failureList |-> NoList("absent")]
    /\ device = <<pk1, dk1>>
    /\ result = NoResult
    /\ cpc = "idle"

\* no operation called yet on a session
Call(op, args) == [op |-> op, args |-> args]
NoCall == Call("", <<>>)
NoReply == Reply("none", Envelope(Absent, Absent, Absent))

IdleSession ==
    /\ session = PecronAPI("US")
    /\ spc = "idle"
    /\ dev = NoDevice
    /\ call = NoCall
    /\ replied = NoReply
    /\ issued = <<>>
    /\ raised = NoException
    /\ returned = None
    /\ logged = <<>>

\* no function of auth.py examined
AuthCalls(email, password, random_str, secret, called, aes_key, encrypted_pwd, decrypted, signature) ==
    [email |-> email, password |-> password, random_str |-> random_str, secret |-> secret,
     called |-> called, aes_key |-> aes_key, encrypted_pwd |-> encrypted_pwd,
     decrypted |-> decrypted, signature |-> signature]
NoAuth == AuthCalls("", "", "", "", {"idle"}, "", "", [exc |-> "", text |-> ""], "")
IdleAuth == auth = NoAuth

\* no command run
NoRun == CliRun("", FALSE, None, PecronAPI("US"), <<>>, <<>>, <<>>, 0, <<>>, <<>>, "idle", 0, NoException)
IdleCli == cli = NoRun

\* no property list examined
IdleDecode ==
    /\ tsl_info = <<>>
    /\ props = DeviceProperties(<<>>)
    /\ i = 0
    /\ pc = "idle"
    /\ exc = ""
    /\ lookup = NoLookup

Init ==
    /\ tsl_info \in SeqsUpTo(Items, MaxLen)
    /\ props = DeviceProperties(<<>>)
    /\ i = 0
    /\ pc = "call"
    /\ exc = ""
    /\ lookup = NoLookup
    /\ IdleCommand
    /\ IdleSession
    /\ IdleAuth
    /\ IdleCli

\* props = cls(raw=tsl_info)
FromApiCall ==
    /\ pc = "call"
    /\ props' = DeviceProperties(tsl_info)
    /\ pc' = "loop"
    /\ UNCHANGED <<tsl_info, i, exc, lookup, commandVars, sessionVars, authVars, cliVars>>

\* one iteration of "for item in tsl_info", the try statement included
FromApiItem ==
    /\ pc = "loop"
    /\ i < Len(tsl_info)
    /\ LET done == from_api_item(props, tsl_info[i + 1])
       IN  IF done.exc = ""
           THEN /\ props' = done.self
                /\ i' = i + 1
                /\ UNCHANGED <<pc, exc>>
           ELSE /\ pc' = "raised"
                /\ exc' = done.exc
                /\ UNCHANGED <<props, i>>
    /\ UNCHANGED <<tsl_info, lookup, commandVars, sessionVars, authVars, cliVars>>

\* return props
FromApiReturn ==
    /\ pc = "loop"
    /\ i = Len(tsl_info)
    /\ pc' = "done"
    /\ UNCHANGED <<tsl_info, props, i, exc, lookup, commandVars, sessionVars, authVars, cliVars>>

\* props.get_by_code(resource_code) on the returned instance
GetByCode(resource_code) ==
    /\ pc = "done"
    /\ lookup' = [code |-> resource_code, value |-> get_by_code(props, resource_code)]
    /\ UNCHANGED <<tsl_info, props, i, pc, exc, commandVars, sessionVars, authVars, cliVars>>

Next ==
    \/ FromApiCall
    \/ FromApiItem
    \/ FromApiReturn
    \/ \E resource_code \in QueryCodes : GetByCode(resource_code)

Spec == Init /\ [][Next]_vars

-----------------------------------------------------------------------------
(* Decoding a command response: CommandResult.from_api.                    *)

CommandInit ==
    /\ response \in Responses
    /\ device \in Devices
    /\ result = NoResult
    /\ cpc = "call"
    /\ tsl_info = <<>>
    /\ props = DeviceProperties(<<>>)
    /\ i = 0
    /\ pc = "idle"
    /\ exc = ""
    /\ lookup = NoLookup
    /\ IdleSession
    /\ IdleAuth
    /\ IdleCli

\* CommandResult.from_api(response, product_key, device_key)
CommandFromApi ==
    /\ cpc = "call"
    /\ result' = CommandResult_from_api(response, device[1], device[2])
    /\ cpc' = "returned"
    /\ UNCHANGED <<response, device, decodeVars, sessionVars, authVars, cliVars>>

CommandNext == CommandFromApi

CommandSpec == CommandInit /\ [][CommandNext]_vars

-----------------------------------------------------------------------------
(* The session: a PecronAPI object and the operations called on it one     *)
(* after the other, each on a device that the caller holds.  The caller    *)
(* names the operation and its arguments (Invoke); the operation then runs *)
(* from its first line to its last against what the upstream does with its *)
(* request.  call is the operation and its arguments, replied what the     *)
(* upstream did, issued the requests handed to the transport, raised and   *)
(* returned the way the operation ended.                                   *)

SessionInit ==
    /\ session \in {PecronAPI(region) : region \in SessionRegions}
    /\ spc = "ready"
    /\ dev = NoDevice
    /\ call = NoCall
    /\ replied = NoReply
    /\ issued = <<>>
    /\ raised = NoException
    /\ returned = None
    /\ logged = <<>>
    /\ tsl_info = <<>>
    /\ props = DeviceProperties(<<>>)
    /\ i = 0
    /\ pc = "idle"
    /\ exc = ""
    /\ lookup = NoLookup
    /\ IdleCommand
    /\ IdleAuth
    /\ IdleCli

\* the caller reaches the call "api.op(args)", a_device being the device among
\* the arguments (NoDevice where the operation takes none)
Invoke(op, args, a_device) ==
    /\ spc = "ready"
    /\ spc' = "called"
    /\ call' = Call(op, args)
    /\ dev' = a_device
    /\ replied' = NoReply
    /\ issued' = <<>>
    /\ raised' = NoException
    /\ returned' = None
    /\ logged' = <<>>
    /\ UNCHANGED <<session, decodeVars, commandVars, authVars, cliVars>>

\* the called operation ran to its end: done is what it did, a_device the
\* device of the call as the operation left it, upstream what the upstream
\* did with its request, records what it wrote to the logger
RanLogging(done, a_device, upstream, records) ==
    /\ session' = done.self
    /\ dev' = a_device
    /\ replied' = upstream
    /\ issued' = done.sent
    /\ raised' = done.exc
    /\ returned' = done.value
    /\ logged' = records
    /\ spc' = "ready"
    /\ UNCHANGED <<call, decodeVars, commandVars, authVars, cliVars>>

\* the same for an operation that writes nothing to the logger
Ran(done, a_device, upstream) == RanLogging(done, a_device, upstream, <<>>)

\* the same for an operation that changes its device in place
RanOnDevice(did, upstream) == Ran(did.done, did.device, upstream)

\* a login ran to its end
LoginRan(done, upstream) == RanLogging(done, dev, upstream, login_logged(done, upstream))

\* api.login(email, password)
Login(random_str, uuid, upstream) ==
    /\ spc = "called"
    /\ call.op = "login"
    /\ LoginRan(login(session, call.args[1], call.args[2], random_str, uuid, upstream), upstream)

\* api.get_devices()
GetDevices(uuid, upstream) ==
    /\ spc = "called"
    /\ call.op = "get_devices"
    /\ Ran(get_devices(session, uuid, upstream), dev, upstream)

\* api.get_device_properties(device)
GetDeviceProperties(uuid, upstream) ==
    /\ spc = "called"
    /\ call.op = "get_device_properties"
    /\ RanOnDevice(get_device_properties(session, dev, uuid, upstream), upstream)

\* api.get_product_tsl(device)
GetProductTsl(uuid, upstream) ==
    /\ spc = "called"
    /\ call.op = "get_product_tsl"
    /\ Ran(get_product_tsl(session, dev, uuid, upstream), dev, upstream)

\* api.set_device_property(device, properties)
SetDeviceProperty(uuid, upstream) ==
    /\ spc = "called"
    /\ call.op = "set_device_property"
    /\ Ran(set_device_property(session, dev, call.args[2], uuid, upstream),
           dev, upstream)

\* api.close()
Close ==
    /\ spc = "called"
    /\ call.op = "close"
    /\ Ran(close(session), dev, NoReply)

SessionNext ==
    \/ \E email \in Emails, password \in Passwords :
          Invoke("login", <<email, password>>, NoDevice)
    \/ Invoke("get_devices", <<>>, NoDevice)
    \/ \E a_device \in SessionDevices :
          Invoke("get_device_properties", <<a_device>>, a_device)
    \/ \E a_device \in SessionDevices :
          Invoke("get_product_tsl", <<a_device>>, a_device)
    \/ \E a_device \in SessionDevices, properties \in PropertyMaps :
          Invoke("set_device_property", <<a_device, properties>>, a_device)
    \/ Invoke("close", <<>>, NoDevice)
    \/ \E random_str \in Nonces, uuid \in Uuids, upstream \in LoginReplies :
          Login(random_str, uuid, upstream)
    \/ \E uuid \in Uuids, upstream \in DeviceListReplies : GetDevices(uuid, upstream)
    \/ \E uuid \in Uuids, upstream \in AttributesReplies :
          GetDeviceProperties(uuid, upstream)
    \/ \E uuid \in Uuids, upstream \in TslReplies : GetProductTsl(uuid, upstream)
    \/ \E uuid \in Uuids, upstream \in CommandReplies : SetDeviceProperty(uuid, upstream)
    \/ Close

SessionSpec == SessionInit /\ [][SessionNext]_vars

-----------------------------------------------------------------------------
(* The functions of auth.py, each called once on the same arguments, the   *)
(* password decrypted again as tests/test_auth.py does.                    *)

\* the arguments the functions are called with
AuthEmails == {"a@b.com", "user@example.com"}
AuthPasswords == {"", "mypassword", "TestPassword123", "0123456789abcdef"}
AuthNonces == {"Xt9kMpQr2sWvYzAb", "AAAAAAAAAAAAAAAA", "BBBBBBBBBBBBBBBB", "abcdefghijklmnop"}
AuthSecrets == {"secret", REGIONS.EU.user_domain_secret}

AuthInit ==
    /\ auth \in {AuthCalls(email, password, random_str, secret, {}, "", "", Decrypted("", ""), "") :
                    email \in AuthEmails, password \in AuthPasswords,
                    random_str \in AuthNonces, secret \in AuthSecrets}
    /\ IdleDecode
    /\ IdleCommand
    /\ IdleSession
    /\ IdleCli

\* aes_key = derive_aes_key(random_str)
DeriveAesKey ==
    /\ "derive_aes_key" \notin auth.called
    /\ auth' = [auth EXCEPT !.called = @ \cup {"derive_aes_key"},
                            !.aes_key = derive_aes_key(auth.random_str)]
    /\ UNCHANGED <<decodeVars, commandVars, sessionVars, cliVars>>

\* encrypted_b64 = encrypt_password(password, random_str)
EncryptPassword ==
    /\ "encrypt_password" \notin auth.called
    /\ auth' = [auth EXCEPT !.called = @ \cup {"encrypt_password"},
                            !.encrypted_pwd = encrypt_password(auth.password, auth.random_str)]
    /\ UNCHANGED <<decodeVars, commandVars, sessionVars, cliVars>>

\* the decryption of what encrypt_password returned, with the derived key
\* and iv = aes_key[8:16] + aes_key[0:8]
DecryptPassword ==
    /\ {"derive_aes_key", "encrypt_password"} \subseteq auth.called
    /\ "decrypt" \notin auth.called
    /\ auth' = [auth EXCEPT !.called = @ \cup {"decrypt"},
                            !.decrypted = decrypt_password(auth.encrypted_pwd, auth.aes_key,
                                              SubSeq(auth.aes_key, 9, 16) \o SubSeq(auth.aes_key, 1, 8))]
    /\ UNCHANGED <<decodeVars, commandVars, sessionVars, cliVars>>

\* signature = compute_signature(email, encrypted_pwd, random_str, secret)
ComputeSignature ==
    /\ "encrypt_password" \in auth.called
    /\ "compute_signature" \notin auth.called
    /\ auth' = [auth EXCEPT !.called = @ \cup {"compute_signature"},
                            !.signature = compute_signature(auth.email, auth.encrypted_pwd,
                                                            auth.random_str, auth.secret)]
    /\ UNCHANGED <<decodeVars, commandVars, sessionVars, cliVars>>

AuthNext ==
    \/ DeriveAesKey
    \/ EncryptPassword
    \/ DecryptPassword
    \/ ComputeSignature

AuthSpec == AuthInit /\ [][AuthNext]_vars

-----------------------------------------------------------------------------
(* The command line: a status or a set command over the devices selected,  *)
(* one step for each iteration of its loop and one for the lines after the *)
(* loop.                                                                   *)

\* the longest list of selected devices
MaxDevices == 3

\* the devices of the account
entry3 ==
    DeviceEntry(PyStr(<<"E", "6", "0", "0">>), pk1, dk2, PyStr(<<"P">>), PyInt(1),
                Absent, Absent, Absent, Absent)
entry4 ==
    DeviceEntry(PyStr(<<"E", "1", "5">>), pk2, dk2, PyStr(<<"Q">>), PyInt(0),
                Absent, Absent, Absent, Absent)
AccountDevices ==
    <<Device_from_api(entry1), Device_from_api(entry2), Device_from_api(entry3),
      Device_from_api(entry4)>>

\* the lists of selected devices: the first devices of the account, and the
\* first two the other way round
CliDeviceLists ==
    {SubSeq(AccountDevices, 1, n) : n \in 1..MaxDevices}
    \cup {<<AccountDevices[2], AccountDevices[1]>>}

\* the properties that "set --ac on" sends
CliProperties ==
    PyDict(<< <<(<<"a", "c", "_", "s", "w", "i", "t", "c", "h", "_", "h", "m">>), PyBool(TRUE)>> >>)

\* the session that _connect returns: logged in
CliSession == [PecronAPI("US") EXCEPT !._access_token = a1, !._refresh_token = r1]

\* what the upstream does with the request of a status command
CliAttributesReplies ==
    TransportFailures
    \cup {Reply("", Envelope(code, msg_denied, None)) : code \in {PyInt(404), PyInt(500)}}
    \cup OkReplies({AttributesData(DeviceData(v1, Absent), List(<<item_battery>>)),
                    AttributesData(Absent, Absent)})

\* what the upstream does with the request of a set command: it fails, or
\* it names a device of the account in one of the two lists
CliCommandReplies ==
    TransportFailures
    \cup {Reply("", Envelope(PyInt(500), msg_denied, None))}
    \cup OkReplies({[successList |-> List(<<Entry(Data(AccountDevices[n].product_key, AccountDevices[n].device_key), t1, Absent)>>),
                      failureList |-> NoList("absent")] : n \in 1..MaxDevices})
    \cup OkReplies({[successList |-> List(<<>>),
                      failureList |-> List(<<Entry(Data(AccountDevices[n].product_key, AccountDevices[n].device_key), Absent, m1)>>)] :
                        n \in 1..MaxDevices})

CliInit ==
    /\ cli \in {CliRun(command, json_output, IF command = "set" THEN CliProperties ELSE None,
                        CliSession, devices, <<>>, <<>>, 0, <<>>, <<>>, "loop", 0, NoException) :
                   command \in {"status", "set"}, json_output \in BOOLEAN,
                   devices \in CliDeviceLists}
    /\ IdleDecode
    /\ IdleCommand
    /\ IdleSession
    /\ IdleAuth

\* the device of the next iteration
NextDevice == cli.devices[Len(cli.attempts) + 1]

\* one iteration of "for dev in devices" of _cmd_status
CmdStatusDevice(uuid, upstream) ==
    /\ cli.command = "status"
    /\ cli.at = "loop"
    /\ Len(cli.attempts) < Len(cli.devices)
    /\ cli' = _cmd_status_device(cli, get_device_properties(cli.api, NextDevice, uuid, upstream))
    /\ UNCHANGED <<decodeVars, commandVars, sessionVars, authVars>>

\* _cmd_status after the loop
CmdStatusEnd ==
    /\ cli.command = "status"
    /\ cli.at = "loop"
    /\ Len(cli.attempts) = Len(cli.devices)
    /\ cli' = _cmd_status_end(cli)
    /\ UNCHANGED <<decodeVars, commandVars, sessionVars, authVars>>

\* one iteration of "for dev in devices" of _cmd_set
CmdSetDevice(uuid, upstream) ==
    /\ cli.command = "set"
    /\ cli.at = "loop"
    /\ Len(cli.attempts) < Len(cli.devices)
    /\ cli' = _cmd_set_device(cli, NextDevice,
                              set_device_property(cli.api, NextDevice, cli.properties, uuid, upstream))
    /\ UNCHANGED <<decodeVars, commandVars, sessionVars, authVars>>

\* _cmd_set after the loop
CmdSetEnd ==
    /\ cli.command = "set"
    /\ cli.at = "loop"
    /\ Len(cli.attempts) = Len(cli.devices)
    /\ cli' = _cmd_set_end(cli)
    /\ UNCHANGED <<decodeVars, commandVars, sessionVars, authVars>>

CliNext ==
    \/ \E uuid \in Uuids, upstream \in CliAttributesReplies : CmdStatusDevice(uuid, upstream)
    \/ CmdStatusEnd
    \/ \E uuid \in Uuids, upstream \in CliCommandReplies : CmdSetDevice(uuid, upstream)
    \/ CmdSetEnd

CliSpec == CliInit /\ [][CliNext]_vars

-----------------------------------------------------------------------------
(* Vocabulary of the properties of DeviceProperties.                       *)

KnownCodes == IntCodes \cup BoolCodes \cup StructCodes

\* the typed field that the documentation of DeviceProperties gives each code
FieldOf(code) ==
    CASE code = "ac_switch_hm" -> "ac_switch"
      [] code = "dc_switch_hm" -> "dc_switch"
      [] code = "ups_status_hm" -> "ups_status"
      [] code = "remain_time" -> "remain_discharging_time"
      [] code = "ac_data_output_hm" -> "ac_output"
      [] code = "dc_data_output_hm" -> "dc_output"
      [] code = "ac_data_input_hm" -> "ac_input"
      [] code = "dc_data_input_hm" -> "dc_input"
      [] OTHER -> code

\* the typed fields of an instance, without its raw store
Typed(self) == [f \in TypedFields |-> self[f]]

\* the item the loop is about to consume, and the one it consumed last
AtItem == pc = "loop" /\ i < Len(tsl_info)
NextItem == tsl_info[i + 1]
PastItem == i >= 1
LastItem == tsl_info[i]

HasString(item) == item.resourceValce.t = "str"

\* a string with no digit in it, such as "not_a_number" or ""
NonNumeric(s) == \A k \in DOMAIN s : ~IsDigit(s[k])

\* an unsigned base-10 integer string
IsBase10(s) == s # <<>> /\ \A k \in DOMAIN s : IsDigit(s[k])

RECURSIVE Base10Value(_, _, _)
\* the integer that the digits s[k..] denote after the prefix worth acc
Base10Value(s, k, acc) ==
    IF k > Len(s) THEN acc ELSE Base10Value(s, k + 1, 10 * acc + DigitValue(s[k]))

\* "true" in any mix of upper and lower case
EqualsTrueIgnoringCase(s) ==
    /\ Len(s) = 4
    /\ s[1] \in {"t", "T"} /\ s[2] \in {"r", "R"}
    /\ s[3] \in {"u", "U"} /\ s[4] \in {"e", "E"}

\* the record fails to parse in one of the two ways the codec must survive:
\* a non-numeric string for an integer code, malformed JSON for a struct code
\* declared STRUCT
FailsToParse(item) ==
    /\ HasString(item)
    /\ \/ item.resourceCode \in IntCodes /\ NonNumeric(item.resourceValce.s)
       \/ /\ item.resourceCode \in StructCodes
          /\ item.dataType = "STRUCT"
          /\ json_loads(item.resourceValce).exc = "JSONDecodeError"

\* the conversion that the type of the code's field calls for, on the record as
\* the loop reads it
Conversion(item) ==
    LET value == get(item.resourceValce, PyStr(<<>>))
    IN  CASE item.resourceCode \in IntCodes -> int(value)
          [] item.resourceCode \in BoolCodes -> lower_is_true(value)
          [] item.resourceCode \in StructCodes ->
                IF item.dataType = "STRUCT" THEN json_loads(value) ELSE Ok(None)

\* the positions of the records of a code, and of those whose conversion raised
RecordsOf(code) == {k \in DOMAIN tsl_info : tsl_info[k].resourceCode = code}
FailedRecordsOf(code) == {k \in RecordsOf(code) : Conversion(tsl_info[k]).exc # ""}
ParsedRecordsOf(code) == RecordsOf(code) \ FailedRecordsOf(code)

Last(S) == CHOOSE k \in S : \A m \in S : k >= m
First(S) == CHOOSE k \in S : \A m \in S : k <= m

-----------------------------------------------------------------------------
(* Properties of DeviceProperties.from_api.                                *)

\* C1: a record whose value fails to parse (a non-numeric string for an
\* integer code, malformed JSON for a struct code) does not stop the loop: the
\* step that consumes it changes no typed field, raises nothing and moves on
\* to the next record; and when decoding has returned, every record was
\* consumed and a record that parsed after a failed one is in its typed field.
C1_FailedRecordIsSkipped ==
    /\ [][(AtItem /\ FailsToParse(NextItem))
            => (props' = props /\ i' = i + 1 /\ pc' = "loop" /\ exc' = "")]_vars
    /\ [](pc = "done" =>
            /\ i = Len(tsl_info)
            /\ \A k \in DOMAIN tsl_info : \A j \in DOMAIN tsl_info :
                  (/\ FailsToParse(tsl_info[k])
                   /\ j > k
                   /\ tsl_info[j].resourceCode \in KnownCodes
                   /\ j = Last(RecordsOf(tsl_info[j].resourceCode))
                   /\ Conversion(tsl_info[j]).exc = "")
                  => props[FieldOf(tsl_info[j].resourceCode)] = Conversion(tsl_info[j]).v)

\* C1 witness: decoding returned for a list whose first record failed to parse
\* and whose second record was decoded into its field.
C1_Witness ==
    /\ pc = "done"
    /\ Len(tsl_info) = 2
    /\ FailsToParse(tsl_info[1])
    /\ tsl_info[2] = Item("total_input_power", PyStr(s_98), "INT")
    /\ props.total_input_power = PyInt(98)

\* C2: from_api never raises, whatever the code, declared type and value of
\* each record.
C2_NeverRaises == pc # "raised"

\* C3 (as claimed): after decoding, a typed field is unset when the list has no
\* record with its code or has a record with its code whose value fails to parse.
C3_FailedOrAbsentIsUnset ==
    pc = "done" =>
        \A code \in KnownCodes :
            (RecordsOf(code) = {} \/ FailedRecordsOf(code) # {})
                => props[FieldOf(code)] = None

\* C3 (amended): after decoding, a typed field is unset when the list has no
\* record with its code or when every record with its code fails to parse;
\* otherwise it holds the value converted from the last record with its code
\* that parsed, so 0 and false are never defaults.
C3_UnsetUnlessParsed ==
    pc = "done" =>
        \A code \in KnownCodes :
            props[FieldOf(code)] =
                IF ParsedRecordsOf(code) = {} THEN None
                ELSE Conversion(tsl_info[Last(ParsedRecordsOf(code))]).v

\* C3 witness: decoding returned with a field that kept the value of an earlier
\* record although a later record with the same code failed to parse.
C3_Witness ==
    /\ pc = "done"
    /\ \E code \in IntCodes :
          /\ FailedRecordsOf(code) # {}
          /\ ParsedRecordsOf(code) # {}
          /\ Last(ParsedRecordsOf(code)) < Last(FailedRecordsOf(code))
          /\ props[FieldOf(code)] = PyInt(98)

\* C3 second witness: a field is unset because its only record failed to parse.
C3_WitnessUnset ==
    /\ pc = "done"
    /\ \E code \in KnownCodes :
          /\ RecordsOf(code) # {}
          /\ ParsedRecordsOf(code) = {}
          /\ props[FieldOf(code)] = None

\* C4: once a record with a boolean code and a string value is consumed, the
\* field of the code is true if the value is "true" in any letter case and
\* false for every other string, the empty string included.
C4_BooleanIsTrueIgnoringCase ==
    (PastItem /\ LastItem.resourceCode \in BoolCodes /\ HasString(LastItem))
        => props[FieldOf(LastItem.resourceCode)]
             = PyBool(EqualsTrueIgnoringCase(LastItem.resourceValce.s))

\* C4 witness: a boolean record whose value is "TruE" was consumed and set true.
C4_Witness ==
    /\ PastItem
    /\ LastItem = Item("dc_switch_hm", PyStr(s_True), "BOOL")
    /\ props.dc_switch = PyBool(TRUE)

\* C4 second witness: the empty string was consumed and set false.
C4_WitnessEmpty ==
    /\ PastItem
    /\ LastItem = Item("ac_switch_hm", PyStr(<<>>), "BOOL")
    /\ props.ac_switch = PyBool(FALSE)

\* C5: the step that consumes a record with an integer code and a base-10
\* integer string sets the field of that code (remain_time sets
\* remain_discharging_time) to that integer and changes nothing else.
C5_IntegerSetsItsField ==
    [][(AtItem /\ NextItem.resourceCode \in IntCodes /\ HasString(NextItem)
            /\ IsBase10(NextItem.resourceValce.s))
        => props' = [props EXCEPT ![FieldOf(NextItem.resourceCode)] =
                        PyInt(Base10Value(NextItem.resourceValce.s, 1, 0))]]_vars

\* C5 witness: remain_time "98" was consumed into remain_discharging_time while
\* remain_charging_time stayed unset.
C5_Witness ==
    /\ PastItem
    /\ LastItem = Item("remain_time", PyStr(s_98), "INT")
    /\ props.remain_discharging_time = PyInt(98)
    /\ props.remain_charging_time = None

\* the JSON values of the strings the upstream sends
DecodedObject == PyDict(<< <<(<<"a">>), PyStr(<<"1">>)>> >>)

\* C6: once a record with a struct code is consumed, the field of the code is
\* the decoded JSON of the value if the declared type is STRUCT (and the value
\* is JSON), and unset if the declared type is anything else.
C6_StructOnlyWhenDeclaredStruct ==
    (PastItem /\ LastItem.resourceCode \in StructCodes) =>
        LET field == props[FieldOf(LastItem.resourceCode)]
        IN  /\ (LastItem.dataType # "STRUCT") => field = None
            /\ (LastItem.dataType = "STRUCT" /\ LastItem.resourceValce = PyStr(s_object))
                  => field = DecodedObject
            /\ (LastItem.dataType = "STRUCT" /\ LastItem.resourceValce = PyStr(s_98))
                  => field = PyInt(98)

\* C6 witness: a struct record declared TEXT was consumed after one declared
\* STRUCT had set the field, and the field is unset.
C6_Witness ==
    /\ i = 2
    /\ tsl_info[1] = Item("dc_data_input_hm", PyStr(s_object), "STRUCT")
    /\ tsl_info[2] = Item("dc_data_input_hm", PyStr(s_object), "TEXT")
    /\ props.dc_input = None

\* C6 second witness: a record declared STRUCT was consumed and decoded.
C6_WitnessDecoded ==
    /\ PastItem
    /\ LastItem = Item("ac_data_input_hm", PyStr(s_object), "STRUCT")
    /\ props.ac_input = DecodedObject

\* C7: from the construction on, the raw store is the input list, whatever the
\* outcome of each record; and the step that consumes a record with an
\* unrecognized code changes no typed field and leaves the record stored.
C7_RawIsTheInput ==
    /\ [](pc # "call" => props.raw = tsl_info)
    /\ [][(AtItem /\ NextItem.resourceCode \notin KnownCodes)
            => (Typed(props') = Typed(props) /\ props'.raw = tsl_info)]_vars

\* C7 witness: decoding returned for a list with a failed record and a record
\* with an unrecognized code, and the raw store holds both.
C7_Witness ==
    /\ pc = "done"
    /\ Len(props.raw) = 2
    /\ FailsToParse(props.raw[1])
    /\ props.raw[2].resourceCode = "unknown_code"

\* the value get_by_code is claimed to return
FirstValueOf(code) ==
    IF RecordsOf(code) = {} THEN None
    ELSE get(tsl_info[First(RecordsOf(code))].resourceValce, None)

\* C8 (as claimed): get_by_code returns the value of the first record with the
\* code, and None exactly when no record has the code.
C8_NoneExactlyWhenNoRecord ==
    lookup # NoLookup =>
        /\ lookup.value = FirstValueOf(lookup.code)
        /\ (lookup.value = None) <=> (RecordsOf(lookup.code) = {})

\* C8 (amended): get_by_code returns the value of the first record with the
\* code; it returns None when no record has the code and also when the first
\* record with the code has no value or a null value.
C8_FirstRecordValue ==
    lookup # NoLookup =>
        /\ lookup.value = FirstValueOf(lookup.code)
        /\ (lookup.value = None) <=>
              \/ RecordsOf(lookup.code) = {}
              \/ tsl_info[First(RecordsOf(lookup.code))].resourceValce \in {Absent, None}

\* C8 witness: two records have the code and the value of the first is returned.
C8_Witness ==
    /\ lookup.code = "battery_percentage"
    /\ Cardinality(RecordsOf("battery_percentage")) = 2
    /\ tsl_info[1].resourceValce # tsl_info[2].resourceValce
    /\ lookup.value = tsl_info[1].resourceValce
    /\ lookup.value = PyStr(s_not_a_number)

\* C8 second witness: no record has the code and None is returned.
C8_WitnessNone ==
    /\ lookup.code = "nonexistent"
    /\ tsl_info # <<>>
    /\ lookup.value = None

-----------------------------------------------------------------------------
(* Properties of CommandResult.from_api.                                   *)

\* the entries of a list of the response; none when it is missing or null
EntriesOf(field) == IF field.t = "list" THEN field.items ELSE <<>>

\* the positions of the entries of a list that name the device
EntriesFor(items) ==
    {k \in DOMAIN items :
        /\ items[k].data.t = "dict"
        /\ items[k].data.productKey = device[1]
        /\ items[k].data.deviceKey = device[2]}

Accepted == EntriesFor(EntriesOf(response.successList))
Rejected == EntriesFor(EntriesOf(response.failureList))

\* C9: if successList has an entry for the device, the result is a success with
\* the ticket of the first such entry; otherwise if failureList has one, the
\* result is a failure with the msg of the first such entry; otherwise (the
\* lists are empty, missing, null or name other devices) it is a failure with
\* the message "Device not found in API response".  The call always returns.
C9_ResultFollowsTheLists ==
    cpc = "returned" =>
        IF Accepted # {}
        THEN /\ result.success
             /\ result.ticket =
                  get(EntriesOf(response.successList)[First(Accepted)].ticket, None)
        ELSE IF Rejected # {}
        THEN /\ ~result.success
             /\ result.error_message =
                  get(EntriesOf(response.failureList)[First(Rejected)].msg, None)
        ELSE /\ ~result.success
             /\ result.error_message = NotFoundMessage

\* C9 witness: the device is in both lists, after an entry for another device
\* in successList, and the result is the success with its ticket.
C9_Witness ==
    /\ cpc = "returned"
    /\ device = <<pk1, dk1>>
    /\ Accepted = {2}
    /\ Rejected # {}
    /\ result = CommandResult(TRUE, t2, None)

\* C9 second witness: the device is in failureList only.
C9_WitnessRejected ==
    /\ cpc = "returned"
    /\ Accepted = {} /\ Rejected # {}
    /\ EntriesOf(response.successList) # <<>>
    /\ result = CommandResult(FALSE, None, m2)

\* C9 third witness: both lists are null.
C9_WitnessNotFound ==
    /\ cpc = "returned"
    /\ response.successList = NoList("none")
    /\ response.failureList = NoList("none")
    /\ result = CommandResult(FALSE, None, NotFoundMessage)

\* C10: every CommandResult that from_api returns has a ticket if and only if
\* it is a success, and an error message if and only if it is a failure.
C10_TicketIffSuccess ==
    cpc = "returned" =>
        /\ (result.ticket # None) <=> result.success
        /\ (result.error_message # None) <=> ~result.success

-----------------------------------------------------------------------------
(* Vocabulary of the properties of the session.                            *)

\* the last call was operation op
Called(op) == spc = "ready" /\ call.op = op

\* the last call returned / raised
Returned == spc = "ready" /\ call.op # "" /\ raised = NoException
Failed == raised # NoException

\* the operations that go to the upstream
UpstreamOps ==
    {"login", "get_devices", "get_device_properties", "get_product_tsl",
     "set_device_property"}

\* the response of the last call, where the transport delivered one
Responded == replied.failure = ""
ResponseCode == get(replied.json.code, None)
ResponseMsg == get(replied.json.msg, PyStr(<<>>))

\* the keys of a dict, in order
KeysOf(obj) == [k \in DOMAIN obj.d |-> obj.d[k][1]]

\* the sequence of single-key objects {code: value} of a mapping, in the
\* mapping's order
SingleKeyObjects(properties) ==
    PyList([k \in 1..Len(properties.d) |->
               PyDict(<< <<properties.d[k][1], properties.d[k][2]>> >>)])

\* the object that the json field of the last request's form body encodes
SubmittedObject == json_loads(issued[1].data.json)

-----------------------------------------------------------------------------
(* Properties of set_device_property's request.                            *)

\* C11 as stated: the form body of a set_device_property request has the
\* single field json, which encodes an object of the three keys data,
\* deviceList and type, where type is 0, deviceList is the one entry of the
\* device's productKey and deviceKey, and data is the sequence of single-key
\* objects {code: value} of the mapping, in its order.
C11_DataIsTheSequence ==
    Called("set_device_property") =>
        /\ Len(issued) = 1
        /\ DOMAIN issued[1].data = {"json"}
        /\ SubmittedObject.exc = ""
        /\ SubmittedObject.v.t = "dict"
        /\ KeysOf(SubmittedObject.v) = <<k_data, k_deviceList, k_type>>
        /\ dict_get(SubmittedObject.v, k_type, None) = PyInt(0)
        /\ dict_get(SubmittedObject.v, k_deviceList, None)
              = PyList(<<PyDict(<< <<k_productKey, call.args[1].product_key>>,
                                   <<k_deviceKey, call.args[1].device_key>> >>)>>)
        /\ dict_get(SubmittedObject.v, k_data, None) = SingleKeyObjects(call.args[2])

\* C11 (amended): as above, except that data is a string, the JSON encoding of
\* the sequence of single-key objects: decoding it gives that sequence, in
\* the mapping's order and with every value as it was passed.
C11_DataEncodesTheSequence ==
    Called("set_device_property") =>
        /\ Len(issued) = 1
        /\ DOMAIN issued[1].data = {"json"}
        /\ SubmittedObject.exc = ""
        /\ SubmittedObject.v.t = "dict"
        /\ KeysOf(SubmittedObject.v) = <<k_data, k_deviceList, k_type>>
        /\ dict_get(SubmittedObject.v, k_type, None) = PyInt(0)
        /\ dict_get(SubmittedObject.v, k_deviceList, None)
              = PyList(<<PyDict(<< <<k_productKey, call.args[1].product_key>>,
                                   <<k_deviceKey, call.args[1].device_key>> >>)>>)
        /\ dict_get(SubmittedObject.v, k_data, None).t = "str"
        /\ json_loads(dict_get(SubmittedObject.v, k_data, None))
              = Ok(SingleKeyObjects(call.args[2]))

\* C11 witness: a request for a mapping of two entries, one of them a string
\* value with a quote in it, whose data string decodes to the two objects.
C11_Witness ==
    /\ Called("set_device_property")
    /\ Len(call.args[2].d) = 2
    /\ call.args[2].d[1][2] = PyStr(<<"a", "\"", "b">>)
    /\ call.args[2].d[2][2] = PyBool(TRUE)
    /\ json_loads(dict_get(SubmittedObject.v, k_data, None)).v.d[2]
          = PyDict(<< <<(<<"a", "c">>), PyBool(TRUE)>> >>)

-----------------------------------------------------------------------------
(* Properties of get_product_tsl and of TslProperty.                       *)

\* the last call was a get_product_tsl that the upstream answered with code
\* 200 and the data payload
TslAnswered(payload) ==
    /\ Called("get_product_tsl")
    /\ Responded
    /\ ResponseCode = PyInt(200)
    /\ replied.json.data = payload

\* the data of that answer gave the entry list in one of the three shapes
AnsweredEntries(entries) ==
    \/ TslAnswered(ShapeTslJson(entries))
    \/ TslAnswered(ShapeProperties(entries))
    \/ TslAnswered(ShapeList(entries))

\* the TslProperty sequence of an entry list
PropertiesOf(entries) == [k \in DOMAIN entries |-> TslProperty_from_api(entries[k])]

\* C12: whichever of the three shapes a productTSL response gives an entry list
\* (a tslJson string that encodes {properties: [...]}, an object with a
\* properties list, the bare list), get_product_tsl returns the TslProperty
\* sequence of that list, in the list's order; an empty object gives the
\* empty list.
C12_SameForTheThreeShapes ==
    /\ \A entries \in TslEntryLists :
          AnsweredEntries(entries) => Returned /\ returned = PropertiesOf(entries)
    /\ TslAnswered(PyDict(<<>>)) => Returned /\ returned = <<>>

\* C12 witness: a tslJson string of two entries, returned as two properties
\* in the order of the string.
C12_Witness ==
    /\ TslAnswered(ShapeTslJson(<<tsl_w, tsl_rw>>))
    /\ Len(returned) = 2
    /\ returned[1].code = PyStr(<<"b">>)
    /\ returned[2].code = PyStr(<<"a">>)

\* C12 second witness: the same two entries under the key properties.
C12_WitnessProperties ==
    /\ TslAnswered(ShapeProperties(<<tsl_w, tsl_rw>>))
    /\ returned = PropertiesOf(<<tsl_w, tsl_rw>>)

\* C12 third witness: the same two entries as a bare list.
C12_WitnessList ==
    /\ TslAnswered(ShapeList(<<tsl_w, tsl_rw>>))
    /\ returned = PropertiesOf(<<tsl_w, tsl_rw>>)

\* C12 fourth witness: the empty object.
C12_WitnessEmptyObject ==
    TslAnswered(PyDict(<<>>)) /\ returned = <<>>

\* the entry holds value under the key subType / holds no subType
HasSubType(entry, value) == \E j \in DOMAIN entry.d : entry.d[j] = <<k_subType, value>>
NoSubType(entry) == \A j \in DOMAIN entry.d : entry.d[j][1] # k_subType

\* C13: every property that get_product_tsl returns for a schema entry is
\* writable if and only if the entry's subType is "RW" or "W"; an entry
\* without subType gives the access mode "R" and is not writable.
C13_WritableIffRWOrW ==
    \A entries \in TslEntryLists :
        AnsweredEntries(entries) =>
            \A k \in DOMAIN entries :
                /\ returned[k].writable
                      <=> \/ HasSubType(entries[k], PyStr(s_RW))
                          \/ HasSubType(entries[k], PyStr(s_W))
                /\ NoSubType(entries[k]) =>
                      returned[k].sub_type = PyStr(s_R) /\ ~returned[k].writable

\* C13 witness: a write-only entry and an entry without subType, the first
\* returned writable, the second with access mode "R" and not writable.
C13_Witness ==
    /\ AnsweredEntries(<<tsl_w, tsl_bare>>)
    /\ returned[1].sub_type = PyStr(s_W) /\ returned[1].writable
    /\ returned[2].sub_type = PyStr(s_R) /\ ~returned[2].writable

\* C13 second witness: a read-write entry, returned writable.
C13_WitnessReadWrite ==
    /\ AnsweredEntries(<<tsl_rw>>)
    /\ returned[1].sub_type = PyStr(s_RW) /\ returned[1].writable

-----------------------------------------------------------------------------
(* Properties of login and of the session's tokens.                        *)

\* the token strings of the upstream
AccessTokens == {a1, a2}
RefreshTokens == {r1, r2}

\* C14: when the response to a login has code 200 (and holds an access and a
\* refresh token string), login returns and the session's tokens are those
\* two strings; when its code is not 200, login raises AuthenticationError
\* with the msg and the code of the response.
C14_LoginStoresOrRaises ==
    Called("login") /\ Responded =>
        /\ \A access \in AccessTokens, refresh \in RefreshTokens :
              /\ ResponseCode = PyInt(200)
              /\ replied.json.data = LoginData(Token(access), Token(refresh))
              => /\ Returned
                 /\ session._access_token = access
                 /\ session._refresh_token = refresh
        /\ ResponseCode # PyInt(200) =>
              raised = AuthenticationError(ResponseMsg, ResponseCode)

\* C14 witness: a login answered with code 200 and the tokens A2 and R2, after
\* which the session holds A2 and R2.
C14_Witness ==
    /\ Called("login") /\ Responded /\ Returned
    /\ ResponseCode = PyInt(200)
    /\ replied.json.data = LoginData(Token(a2), Token(r2))
    /\ session._access_token = a2
    /\ session._refresh_token = r2

\* C14 second witness: a login answered with code 500 and a msg, which raised
\* AuthenticationError with both.
C14_WitnessDenied ==
    /\ Called("login") /\ Responded
    /\ ResponseCode = PyInt(500)
    /\ raised = AuthenticationError(msg_denied, PyInt(500))

\* the session holds other tokens after the step than before it
TokensChange ==
    \/ session'._access_token # session._access_token
    \/ session'._refresh_token # session._refresh_token

\* C15: the session's tokens are absent at construction; a step changes a
\* token only if it is a login that returned (a failed login, the other
\* operations and close leave both tokens as they are); and once the session
\* holds an access token it holds one after every later step.
C15_OnlySuccessfulLoginChangesTokens ==
    /\ session._access_token = None /\ session._refresh_token = None
    /\ [][TokensChange => call'.op = "login" /\ raised' = NoException]_vars
    /\ [][session._access_token # None => session'._access_token # None]_vars

-----------------------------------------------------------------------------
(* Properties of the requests.                                             *)

\* the step is the run of an operation that goes to the upstream
UpstreamCall == spc = "called" /\ call.op \in UpstreamOps

\* C16: the request of every call carries an Authorization header if and only
\* if the session holds an access token when the call is made, and then the
\* header is that token, nothing added; a call made without a token still
\* hands its request to the transport, and fails with an API error only when
\* the response's code is not 200, the error carrying that code.
C16_AuthorizationIffAuthenticated ==
    [][UpstreamCall =>
          /\ Len(issued') = 1
          /\ issued'[1].headers.Authorization # Absent
                <=> session._access_token # None
          /\ session._access_token # None =>
                issued'[1].headers.Authorization = session._access_token
          /\ session._access_token = None /\ IsPecronAPIError(raised') =>
                /\ replied'.failure = ""
                /\ get(replied'.json.code, None) # PyInt(200)
                /\ raised'.code = get(replied'.json.code, None)]_vars

\* C16 witness: a get_devices call of a session that holds the token A1,
\* whose request carries Authorization: A1.
C16_Witness ==
    /\ Called("get_devices")
    /\ session._access_token = a1
    /\ issued[1].headers.Authorization = a1

\* C16 second witness: a get_devices call of a session without a token: the
\* request went out without Authorization, the upstream answered 200 and the
\* call returned.
C16_WitnessUnauthenticated ==
    /\ Called("get_devices")
    /\ session._access_token = None
    /\ Len(issued) = 1
    /\ issued[1].headers.Authorization = Absent
    /\ Responded /\ ResponseCode = PyInt(200) /\ Returned

-----------------------------------------------------------------------------
(* Properties of the failures.                                             *)

\* C17: whatever operation was called and whatever the upstream responded,
\* the call returned only if the response's code is 200, and for every other
\* code it raised a PecronAPIError or one of its subclasses
\* (AuthenticationError from login, CommandError from set_device_property)
\* that carries the code and the msg of the response.
C17_FailureCarriesCodeAndMsg ==
    call.op \in UpstreamOps /\ Responded =>
        /\ Returned => ResponseCode = PyInt(200)
        /\ ResponseCode # PyInt(200) =>
              /\ IsPecronAPIError(raised)
              /\ raised.code = ResponseCode
              /\ raised.message = ResponseMsg
              /\ Called("login") => raised.kind = "AuthenticationError"
              /\ Called("set_device_property") => raised.kind = "CommandError"

\* C17 witness: a set_device_property answered with code 404 and a msg, which
\* raised CommandError with both.
C17_Witness ==
    /\ Called("set_device_property") /\ Responded
    /\ ResponseCode = PyInt(404)
    /\ raised = CommandError(msg_denied, PyInt(404))

\* C17 second witness: a get_devices answered with code 500 and no msg, which
\* raised the generic PecronAPIError with an empty message.
C17_WitnessGeneric ==
    /\ Called("get_devices") /\ Responded
    /\ replied.json.msg = Absent
    /\ raised = PecronAPIError(PyStr(<<>>), PyInt(500))

\* C17 third witness: a get_product_tsl answered with an envelope that has no
\* code, which raised PecronAPIError with the code None.
C17_WitnessNoCode ==
    /\ Called("get_product_tsl") /\ Responded
    /\ replied.json.code = Absent
    /\ raised = PecronAPIError(msg_denied, None)

\* the codes that stand for a device the upstream does not know
NotFoundCodes == {PyInt(404), PyInt(4004)}

\* C18: a get_device_properties call raises DeviceNotFoundError exactly when
\* the response's code is 404 or 4004, with the code and the msg of the
\* response; for every other code than 200 it raises the generic
\* PecronAPIError with them.
C18_NotFoundExactlyFor404And4004 ==
    Called("get_device_properties") /\ Responded =>
        /\ raised.kind = "DeviceNotFoundError" <=> ResponseCode \in NotFoundCodes
        /\ ResponseCode \in NotFoundCodes =>
              raised = DeviceNotFoundError(ResponseMsg, ResponseCode)
        /\ ResponseCode \notin NotFoundCodes \cup {PyInt(200)} =>
              raised = PecronAPIError(ResponseMsg, ResponseCode)

\* C18 witness: a get_device_properties answered with code 4004, which raised
\* DeviceNotFoundError with the code and the msg.
C18_Witness ==
    /\ Called("get_device_properties") /\ Responded
    /\ ResponseCode = PyInt(4004)
    /\ raised = DeviceNotFoundError(msg_denied, PyInt(4004))

\* C18 second witness: a get_device_properties answered with code 500, which
\* raised the generic PecronAPIError.
C18_WitnessGeneric ==
    /\ Called("get_device_properties") /\ Responded
    /\ ResponseCode = PyInt(500)
    /\ raised = PecronAPIError(msg_denied, PyInt(500))

-----------------------------------------------------------------------------
(* Properties of the device that get_device_properties is called on.       *)

\* the value that the deviceData of a response payload holds under a key
\* (Absent if there is no deviceData object or the key is not in it)
HeldVersion(payload, key) ==
    IF payload.t = "dict" /\ payload.deviceData.t = "dict"
    THEN payload.deviceData[key]
    ELSE Absent

\* a non-empty value
NonEmpty(value) == value \notin {Absent, None, PyStr(<<>>)}

\* the field of the device after a get_device_properties call, as C19 has
\* it: the value held by the response if the call returned and the value is
\* not empty, and the field as it was passed otherwise
FieldAfter(field, key) ==
    IF Returned /\ NonEmpty(HeldVersion(replied.json.data, key))
    THEN HeldVersion(replied.json.data, key)
    ELSE call.args[1][field]

\* C19: a get_device_properties call changes nothing of the device passed to
\* it but firmware_version and mcu_version, and each of the two only when the
\* call returns and the response's deviceData holds a non-empty value for it,
\* to that value; when the call fails or there is no deviceData, both are as
\* they were.
C19_OnlyVersionsChangeAndOnlyOnSuccess ==
    Called("get_device_properties") =>
        /\ \A field \in DOMAIN dev \ {"firmware_version", "mcu_version"} :
              dev[field] = call.args[1][field]
        /\ dev.firmware_version = FieldAfter("firmware_version", "version")
        /\ dev.mcu_version = FieldAfter("mcu_version", "mcuVersion")

-----------------------------------------------------------------------------
(* Properties of the round trips.                                          *)

\* C20: each call of login, get_devices, get_device_properties,
\* get_product_tsl or set_device_property hands exactly one request to the
\* transport, whether it returns or raises; and when the transport fails
\* (session.request or raise_for_status raises), the call raises that very
\* exception, which is no PecronAPIError, and the session's tokens stay.
C20_OneRequestAndTransportFailureUnchanged ==
    spc = "ready" /\ call.op \in UpstreamOps =>
        /\ Len(issued) = 1
        /\ ~Responded =>
              /\ raised = Error(replied.failure)
              /\ ~IsPecronAPIError(raised)

\* C20 witness: a set_device_property whose request met a ConnectionError:
\* one request went out and the call raised ConnectionError.
C20_Witness ==
    /\ Called("set_device_property")
    /\ replied.failure = "ConnectionError"
    /\ Len(issued) = 1
    /\ raised = Error("ConnectionError")

\* C20 second witness: a get_device_properties that returned after one
\* request.
C20_WitnessReturned ==
    /\ Called("get_device_properties")
    /\ Returned
    /\ Len(issued) = 1

\* C20 third witness: a login whose response had an error status, so that
\* raise_for_status raised HTTPError: login raised HTTPError, not
\* AuthenticationError.
C20_WitnessStatus ==
    /\ Called("login")
    /\ replied.failure = "HTTPError"
    /\ Len(issued) = 1
    /\ raised = Error("HTTPError")

-----------------------------------------------------------------------------
(* C21: the nonce of a login.                                              *)

\* the form that the last call posted
PostedForm == issued[1].data

\* C21: the form a login posts holds one nonce as its random, its pwd is the
\* password encrypted under the key derived from that nonce, its signature
\* is compute_signature(email, that pwd, that nonce, the secret of the
\* session's region), and its userDomain is the user domain of that region.
C21_OneNonceSignsAndEncrypts ==
    Called("login") =>
        /\ Len(issued) = 1
        /\ \E random_str \in Nonces :
              /\ PostedForm.random = random_str
              /\ PostedForm.pwd = encrypt_password(call.args[2], random_str)
              /\ PostedForm.signature =
                    compute_signature(call.args[1], PostedForm.pwd, random_str,
                                      REGIONS[session.region].user_domain_secret)
        /\ PostedForm.email = call.args[1]
        /\ PostedForm.userDomain = REGIONS[session.region].user_domain

\* C21 witness: a login of a session of the region EU that drew the second
\* nonce and posted a 64-character signature and a password encrypted to 24
\* characters of base64.
C21_Witness ==
    /\ Called("login") /\ Returned
    /\ session.region = "EU"
    /\ PostedForm.random = "q7ZkB2mW9xTfL0aC"
    /\ PostedForm.userDomain = "C.DM.10351.1"
    /\ Len(PostedForm.signature) = 64
    /\ Len(PostedForm.pwd) = 24
    /\ PostedForm.pwd # encrypt_password("correct horse", "Xt9kMpQr2sWvYzAb")

-----------------------------------------------------------------------------
(* C22: the password and the key stay inside login.                        *)

\* the string of a sequence of characters
RECURSIVE join_chars(_)
join_chars(chars) ==
    IF Len(chars) = 0 THEN ""
    ELSE IF Len(chars) = 1 THEN chars[1]
    ELSE join_chars(SubSeq(chars, 1, Len(chars) \div 2))
         \o join_chars(SubSeq(chars, (Len(chars) \div 2) + 1, Len(chars)))

\* the decimal digits of a natural number
RECURSIVE digits_of(_)
digits_of(number) ==
    IF number < 10 THEN hex_digit(number)
    ELSE digits_of(number \div 10) \o hex_digit(number % 10)

\* the text of a value of the upstream as a request header or "%s" shows it
TextOf(value) ==
    CASE value.t = "str" -> join_chars(value.s)
      [] value.t = "int" -> digits_of(value.n)
      [] value.t = "none" -> "None"
      [] OTHER -> ""

\* part occurs in text
Occurs(part, text) ==
    \E at \in 1..(Len(text) - Len(part) + 1) : SubSeq(text, at, at + Len(part) - 1) = part

\* the texts of a request: method, URL, the fields of the form, the headers
RequestTexts(request) ==
    {request.method, request.url}
    \cup {request.data[field] : field \in DOMAIN request.data}
    \cup {request.headers[header] : header \in DOMAIN request.headers \ {"Authorization"}}
    \cup {TextOf(request.headers.Authorization)}

\* the texts that the last call sent, logged, or left in the session
LeftTexts ==
    UNION {RequestTexts(issued[at]) : at \in 1..Len(issued)}
    \cup {logged[at].msg : at \in 1..Len(logged)}
    \cup UNION {{TextOf(logged[at].args[arg]) : arg \in 1..Len(logged[at].args)} : at \in 1..Len(logged)}
    \cup {session.region, TextOf(session._access_token), TextOf(session._refresh_token)}

\* C22: after a login, neither the plaintext password nor the AES key derived
\* from the nonce occurs in a log record, in a field or header of the request
\* sent, or in the state of the session; the pwd sent is not the password.
C22_PasswordAndKeyStayInside ==
    Called("login") =>
        /\ \A text \in LeftTexts :
              /\ ~Occurs(call.args[2], text)
              /\ ~Occurs(derive_aes_key(PostedForm.random), text)
        /\ PostedForm.pwd # call.args[2]
        /\ PostedForm.pwd = encrypt_password(call.args[2], PostedForm.random)

\* C22 witness: a login that returned, sent the encrypted password, stored
\* both tokens and logged the expiration time of the response.
C22_Witness ==
    /\ Called("login") /\ Returned
    /\ call.args[2] = "Tr0ub4dor&3"
    /\ Len(PostedForm.pwd) = 24
    /\ session._access_token = a1
    /\ session._refresh_token = r2
    /\ Len(logged) = 1
    /\ TextOf(logged[1].args[1]) = "1790000000"
    /\ "1790000000" \in LeftTexts

\* the parts of a login that another password may change: pwd and signature
Redacted(requests) ==
    [at \in 1..Len(requests) |->
        [requests[at] EXCEPT !.data = [@ EXCEPT !.pwd = "", !.signature = ""]]]

\* C22, as a comparison of two runs: a login with another password, the same
\* nonce and the same response sends the same request but for pwd and
\* signature, logs the same records, raises the same exception and leaves
\* the same session.
C22_OtherPasswordSameTrace ==
    [][spc = "called" /\ call.op = "login" =>
         \A password \in Passwords :
            /\ login(session, call.args[1], password, issued'[1].data.random,
                     issued'[1].headers.quec_random_url, replied').self = session'
            /\ login(session, call.args[1], password, issued'[1].data.random,
                     issued'[1].headers.quec_random_url, replied').exc = raised'
            /\ Redacted(login(session, call.args[1], password, issued'[1].data.random,
                              issued'[1].headers.quec_random_url, replied').sent)
                 = Redacted(issued')
            /\ login_logged(login(session, call.args[1], password, issued'[1].data.random,
                                  issued'[1].headers.quec_random_url, replied'), replied')
                 = logged']_vars

-----------------------------------------------------------------------------
(* C23: encrypt_password.                                                  *)

\* every character of text is one of chars
AllIn(text, chars) ==
    \A at \in 1..Len(text) : \E k \in 1..Len(chars) : SubSeq(text, at, at) = SubSeq(chars, k, k)

\* the key and the IV that the documentation of encrypt_password names
KeyOf(random_str) == SubSeq(upper(hex(md5(encode(random_str)))), 9, 24)
IvOf(random_str) == SubSeq(KeyOf(random_str), 9, 16) \o SubSeq(KeyOf(random_str), 1, 8)

\* C23: what encrypt_password returned is what another call with the same
\* arguments returns, and is the base64 text of the AES-CBC encryption of
\* the padded password under the key derive_aes_key(nonce) and the IV
\* key[8:16] + key[0:8]; decrypting it with that key and IV and unpadding
\* gives the password; the same password under another nonce gives another
\* text.
C23_EncryptsUnderDerivedKeyAndDecrypts ==
    "encrypt_password" \in auth.called =>
        /\ auth.encrypted_pwd = encrypt_password(auth.password, auth.random_str)
        /\ auth.encrypted_pwd =
              b64encode(cbc_encrypt(encode(KeyOf(auth.random_str)), encode(IvOf(auth.random_str)),
                                    pad(encode(auth.password), 16)).v)
        /\ KeyOf(auth.random_str) = derive_aes_key(auth.random_str)
        /\ decrypt_password(auth.encrypted_pwd, KeyOf(auth.random_str), IvOf(auth.random_str))
              = Decrypted("", auth.password)
        /\ "decrypt" \in auth.called => auth.decrypted = Decrypted("", auth.password)
        /\ \A random_str \in AuthNonces \ {auth.random_str} :
              encrypt_password(auth.password, random_str) # auth.encrypted_pwd
        /\ auth.password = "TestPassword123" /\ auth.random_str = "Xt9kMpQr2sWvYzAb"
              => auth.encrypted_pwd = "zt5V6ttOfZt6T1dGS+fllQ=="

\* C23 witness: the known vector of the tests, encrypted and decrypted again.
C23_Witness ==
    /\ {"encrypt_password", "decrypt"} \subseteq auth.called
    /\ auth.password = "TestPassword123"
    /\ auth.random_str = "Xt9kMpQr2sWvYzAb"
    /\ auth.encrypted_pwd = "zt5V6ttOfZt6T1dGS+fllQ=="
    /\ auth.decrypted = Decrypted("", "TestPassword123")

\* C23 second witness: a password of a whole block, which padding extends by
\* another block, encrypted to 44 characters and decrypted again.
C23_WitnessTwoBlocks ==
    /\ {"encrypt_password", "decrypt"} \subseteq auth.called
    /\ auth.password = "0123456789abcdef"
    /\ Len(auth.encrypted_pwd) = 44
    /\ auth.decrypted = Decrypted("", "0123456789abcdef")

-----------------------------------------------------------------------------
(* C24: derive_aes_key.                                                    *)

\* C24: what derive_aes_key returned is what another call with the same nonce
\* returns, has exactly 16 characters, equals its uppercase form, and is the
\* characters 8..23 of the uppercased hex MD5 digest of the nonce, which has
\* 32 characters.
C24_KeyIsSixteenUppercaseDigestCharacters ==
    "derive_aes_key" \in auth.called =>
        /\ auth.aes_key = derive_aes_key(auth.random_str)
        /\ Len(auth.aes_key) = 16
        /\ auth.aes_key = upper(auth.aes_key)
        /\ AllIn(auth.aes_key, "0123456789ABCDEF")
        /\ Len(hex(md5(encode(auth.random_str)))) = 32
        /\ auth.aes_key = SubSeq(upper(hex(md5(encode(auth.random_str)))), 9, 24)
        /\ auth.random_str = "Xt9kMpQr2sWvYzAb" => auth.aes_key = "0D7673BAA78620C8"
        /\ auth.random_str = "abcdefghijklmnop" => auth.aes_key = "39C4437B7736041D"

\* C24 witness: the key derived from the nonce of the tests, which holds
\* letters.
C24_Witness ==
    /\ "derive_aes_key" \in auth.called
    /\ auth.random_str = "abcdefghijklmnop"
    /\ auth.aes_key = "39C4437B7736041D"

-----------------------------------------------------------------------------
(* C25: compute_signature.                                                 *)

\* C25: what compute_signature returned is what another call with the same
\* arguments returns, has 64 characters, all of them lowercase hex digits, is
\* the SHA-256 digest of email + encrypted password + nonce + secret in that
\* order, and differs from the signature of every other email, of every
\* other encrypted password, of every other nonce and of every other secret,
\* the three other arguments being the same.
C25_SignatureIsDigestOfTheFourInOrder ==
    "compute_signature" \in auth.called =>
        /\ auth.signature = compute_signature(auth.email, auth.encrypted_pwd,
                                              auth.random_str, auth.secret)
        /\ Len(auth.signature) = 64
        /\ AllIn(auth.signature, "0123456789abcdef")
        /\ auth.signature =
              hex(sha256(encode(auth.email \o auth.encrypted_pwd \o auth.random_str \o auth.secret)))
        /\ \A email \in AuthEmails \ {auth.email} :
              compute_signature(email, auth.encrypted_pwd, auth.random_str, auth.secret)
                 # auth.signature
        /\ \A password \in AuthPasswords \ {auth.password} :
              compute_signature(auth.email, encrypt_password(password, auth.random_str),
                                auth.random_str, auth.secret) # auth.signature
        /\ \A random_str \in AuthNonces \ {auth.random_str} :
              compute_signature(auth.email, auth.encrypted_pwd, random_str, auth.secret)
                 # auth.signature
        /\ \A secret \in AuthSecrets \ {auth.secret} :
              compute_signature(auth.email, auth.encrypted_pwd, auth.random_str, secret)
                 # auth.signature
        /\ compute_signature("a@b.com", "encpwd", "rand1234567890AB", "secret")
              = "0eaa00fa3332ffe8ab793c153097388766ac12eb592938a4259c458d144d49e3"

\* C25 witness: a signature of 64 characters over an encrypted password,
\* with the secret of a region.
C25_Witness ==
    /\ "compute_signature" \in auth.called
    /\ auth.email = "user@example.com"
    /\ auth.secret = "FA5ZHXSka8y9GHvU91Hz1vWvaDSHE2mGW5B7bpn3fXTW"
    /\ Len(auth.encrypted_pwd) = 24
    /\ Len(auth.signature) = 64

-----------------------------------------------------------------------------
(* C26: a failure on one device and the rest of the loop.                  *)

\* the last call of the loop
LastAttempt == cli.attempts[Len(cli.attempts)]

\* the call of the loop on device n failed
FailedOn(n) == cli.attempts[n].exc # NoException

\* a line of stderr reports the failure of the call on device n
ReportedOn(n) ==
    \E line \in 1..Len(cli.stderr) :
        /\ cli.stderr[line][2] = cli.attempts[n].device_name
        /\ cli.stderr[line][3] = cli.attempts[n].exc

\* C26: when a status or set command over a list of devices has ended, its
\* operation was attempted on every device of the list, in list order, and
\* every call that failed, with an API failure or a failure of the
\* transport, was reported for its device.
C26_FailureDoesNotAbortTheLoop ==
    cli.at = "ended" =>
        /\ Len(cli.attempts) = Len(cli.devices)
        /\ \A n \in 1..Len(cli.attempts) :
              /\ cli.attempts[n].product_key = cli.devices[n].product_key
              /\ cli.attempts[n].device_key = cli.devices[n].device_key
              /\ FailedOn(n) => ReportedOn(n)

\* the part of C26 that holds: a call that raised an API failure is reported
\* on stderr with the name of its device, and the loop goes on.
C26_ApiFailureIsReportedAndTheLoopGoesOn ==
    [][/\ cli.at = "loop"
       /\ Len(cli'.attempts) = Len(cli.attempts) + 1
       /\ IsPecronAPIError(cli'.attempts[Len(cli'.attempts)].exc)
       => /\ cli'.at = "loop"
          /\ cli'.stderr = Append(cli.stderr,
                                  <<cli'.stderr[Len(cli'.stderr)][1],
                                    cli'.attempts[Len(cli'.attempts)].device_name,
                                    cli'.attempts[Len(cli'.attempts)].exc>>)]_vars

\* a status command over three devices whose first call met a failure of the
\* transport: the command has ended after that one call.
C26_TransportFailureEndsTheCommand ==
    /\ cli.command = "status"
    /\ cli.at = "ended"
    /\ Len(cli.devices) = 3
    /\ Len(cli.attempts) = 1
    /\ cli.escaped = Error("ConnectionError")
    /\ cli.stderr = <<>>
    /\ cli.status = 1

-----------------------------------------------------------------------------
(* The two tokens of a login.                                              *)

\* the step is the run of a login
LoginRuns == spc = "called" /\ call.op = "login"

\* the response of the last call holds an access token and a refresh token
ResponseHoldsBothTokens ==
    /\ Responded
    /\ get(replied.json.data, None).t = "dict"
    /\ ~NoTokenAt(replied.json.data.accessToken)
    /\ ~NoTokenAt(replied.json.data.refreshToken)

\* C27: after a login returned or raised, the session's access token and
\* refresh token are either both the tokens of that login's response or both
\* what they were before the login; no login updates only one of the two.
C27_TokensChangeTogether ==
    [][LoginRuns =>
          \/ /\ session'._access_token = session._access_token
             /\ session'._refresh_token = session._refresh_token
          \/ /\ ResponseHoldsBothTokens'
             /\ session'._access_token = replied'.json.data.accessToken.token
             /\ session'._refresh_token = replied'.json.data.refreshToken.token]_vars

\* a login whose response had an access token and no refresh token raised
\* KeyError and left the new access token beside no refresh token
C27_OnlyAccessTokenStored ==
    /\ Called("login") /\ Responded
    /\ raised = Error("KeyError")
    /\ session._access_token = replied.json.data.accessToken.token
    /\ session._refresh_token = None

-----------------------------------------------------------------------------
(* The typed view against the raw lookup.                                  *)

\* the raw value equals "true" ignoring case
IsTrueIgnoringCase(value) ==
    value.t = "str" /\ lower(value.s) = <<"t", "r", "u", "e">>

\* the typed field of the code, when set, is what the raw lookup of the code
\* parses to
AgreesWithLookup(code) ==
    props[FieldOf(code)] # None =>
        IF code \in IntCodes
        THEN int(get_by_code(props, code)) = Ok(props[FieldOf(code)])
        ELSE props[FieldOf(code)] = PyBool(IsTrueIgnoringCase(get_by_code(props, code)))

\* C28: after decoding any record sequence, also one with several records of
\* the same code, every integer field that is set equals the integer parse of
\* get_by_code for its code, and every boolean field that is set equals
\* whether get_by_code for its code is "true" ignoring case.
C28_TypedViewAgreesWithLookup ==
    pc = "done" => \A code \in IntCodes \cup BoolCodes : AgreesWithLookup(code)

\* the two views agree for every code whose first record is the last of its
\* records that parsed, so for every code that occurs once
C28_AgreeWhenTheFirstRecordIsTheLastParsed ==
    pc = "done" =>
        \A code \in IntCodes \cup BoolCodes :
            (ParsedRecordsOf(code) # {}
                /\ First(RecordsOf(code)) = Last(ParsedRecordsOf(code)))
                => AgreesWithLookup(code)

\* decoding returned with the field of the second of two records of one code,
\* while get_by_code gives the value of the first
C28_FieldIsLastLookupIsFirst ==
    /\ pc = "done"
    /\ tsl_info = <<Item("battery_percentage", PyStr(s_98), "INT"),
                    Item("battery_percentage", PyStr(s_0), "INT")>>
    /\ props.battery_percentage = PyInt(0)
    /\ get_by_code(props, "battery_percentage") = PyStr(s_98)

-----------------------------------------------------------------------------
(* The exit status of the set command.                                     *)

\* the set command ran to its end
SetEnded == cli.command = "set" /\ cli.at = "ended"

\* set_device_property raised an API failure on the n-th device, or returned
\* a CommandResult with success=false
SetFailedOn(n) ==
    \/ IsPecronAPIError(cli.attempts[n].exc)
    \/ cli.attempts[n].exc = NoException /\ ~cli.attempts[n].value.success

\* C29: the set command ends with a non-zero exit status if and only if
\* set_device_property raised an API failure or returned success=false for at
\* least one of the selected devices, in the text and in the JSON output mode.
C29_NonZeroExitIffSomeDeviceFailed ==
    SetEnded =>
        (cli.status # 0 <=> \E n \in 1..Len(cli.attempts) : SetFailedOn(n))

\* in the text output mode the exit status is as claimed whenever no
\* exception left the loop
C29_TextModeExitIffSomeDeviceFailed ==
    SetEnded /\ ~cli.json_output /\ cli.escaped = NoException =>
        (cli.status # 0 <=> \E n \in 1..Len(cli.attempts) : SetFailedOn(n))

\* in the JSON output mode the set command ended with exit status 0 although
\* a device returned success=false
C29_JsonModeFailureExitsZero ==
    /\ SetEnded /\ cli.json_output
    /\ cli.escaped = NoException
    /\ \E n \in 1..Len(cli.attempts) :
          /\ cli.attempts[n].exc = NoException
          /\ ~cli.attempts[n].value.success
          /\ ~cli.all_results[n].success
    /\ cli.status = 0

====
